---- MODULE Spec2Model ----
(***************************************************************************)
(* Token resolution of scripts/process_tokens.py: resolve_placeholder and  *)
(* the multi-pass resolution loop and CSS emission of main.                *)
(*                                                                         *)
(* Text is modelled at the level of lexemes: a Python str is a sequence of *)
(* lexemes, where the characters the code inspects ("{", "}", ".", "-",    *)
(* " ") are lexemes of their own and every other lexeme is a maximal run   *)
(* of other characters ("color", "500", "16px", "6percent").  split, join, *)
(* the regular expression \{([^}]+)\}, str.replace and re.sub are computed *)
(* on these sequences as the code computes them on characters.             *)
(* A dict is the sequence of its <<key, value>> items in insertion order.  *)
(***************************************************************************)
EXTENDS Integers, Sequences, FiniteSets, TLC

\* ------------------------------------------------------------------ bounds
\* longest reference cycle among the semantic tokens drawn by Init
MaxCycle == 2
\* longest chain of comp tokens ending in a color reference drawn by Init
MaxChain == 2
\* size names size-1 .. size-MaxSizeProbe are offered to resolve_placeholder
MaxSizeProbe == 17

\* ------------------------------------------------------- program constants
max_passes == 5

brands == <<"evydcore", "bruhealth">>

themes == <<"light", "dark">>

\* Python's None, a value no token text equals
None == <<"<None>">>

\* the decimal lexeme of a small natural number
Digits == <<"1", "2", "3", "4", "5", "6", "7", "8", "9", "10",
            "11", "12", "13", "14", "15", "16", "17", "18", "19", "20">>

\* --------------------------------------------------------------- str, list
\* x in list
InSeq(x, s) == \E i \in 1..Len(s) : s[i] = x

\* index of the first element of s equal to x at a position >= i, 0 if none
RECURSIVE IndexFrom(_, _, _)
IndexFrom(s, x, i) ==
    IF i > Len(s) THEN 0
    ELSE IF s[i] = x THEN i
    ELSE IndexFrom(s, x, i + 1)

\* concatenation of a sequence of sequences
RECURSIVE Concat(_)
Concat(ss) == IF ss = <<>> THEN <<>> ELSE Head(ss) \o Concat(Tail(ss))

\* str.split(sep) for a one-character separator: always at least one part
RECURSIVE Split(_, _)
Split(s, sep) ==
    LET i == IndexFrom(s, sep, 1)
    IN  IF i = 0 THEN <<s>>
        ELSE <<SubSeq(s, 1, i - 1)>> \o Split(SubSeq(s, i + 1, Len(s)), sep)

\* sep.join(parts)
RECURSIVE Join(_, _)
Join(parts, sep) ==
    IF parts = <<>> THEN <<>>
    ELSE IF Len(parts) = 1 THEN parts[1]
    ELSE parts[1] \o <<sep>> \o Join(Tail(parts), sep)

\* does pat occur in s at position i
OccursAt(s, pat, i) ==
    /\ i + Len(pat) - 1 <= Len(s)
    /\ SubSeq(s, i, i + Len(pat) - 1) = pat

\* str.replace(pat, rep): every non-overlapping occurrence, left to right
RECURSIVE Replace(_, _, _)
Replace(s, pat, rep) ==
    IF s = <<>> \/ pat = <<>> THEN s
    ELSE IF OccursAt(s, pat, 1)
         THEN rep \o Replace(SubSeq(s, Len(pat) + 1, Len(s)), pat, rep)
         ELSE <<Head(s)>> \o Replace(Tail(s), pat, rep)

\* the matches of \{([^}]+)\} in s from position i on, as <<open, close>>
\* index pairs: leftmost "{" that is followed by at least one character
\* other than "}" and then "}"
RECURSIVE Matches(_, _)
Matches(s, i) ==
    LET o == IndexFrom(s, "{", i)
        c == IF o = 0 THEN 0 ELSE IndexFrom(s, "}", o + 1)
    IN  IF o = 0 \/ c = 0 THEN <<>>
        ELSE IF c = o + 1 THEN Matches(s, o + 1)
        ELSE <<(<<o, c>>)>> \o Matches(s, c + 1)

\* re.findall(r'\{([^}]+)\}', s): the text between the braces of each match
FindAll(s) ==
    LET m == Matches(s, 1)
    IN  [k \in 1..Len(m) |-> SubSeq(s, m[k][1] + 1, m[k][2] - 1)]

\* re.sub(r'\{[^}]+\}', rep, s)
RECURSIVE SubFrom(_, _, _, _)
SubFrom(s, m, i, rep) ==
    IF m = <<>> THEN SubSeq(s, i, Len(s))
    ELSE SubSeq(s, i, m[1][1] - 1) \o rep \o SubFrom(s, Tail(m), m[1][2] + 1, rep)

ReSub(s, rep) == SubFrom(s, Matches(s, 1), 1, rep)

\* '{' in value and '}' in value
HasBraces(s) == InSeq("{", s) /\ InSeq("}", s)

\* ---------------------------------------------------------------- dict
DictKeys(d) == {d[i][1] : i \in 1..Len(d)}

DictHas(d, k) == \E i \in 1..Len(d) : d[i][1] = k

DictGet(d, k) == d[CHOOSE i \in 1..Len(d) : d[i][1] = k][2]

\* d.get(k, default)
DictGetOr(d, k, default) == IF DictHas(d, k) THEN DictGet(d, k) ELSE default

\* d[k] = v: an existing key keeps its position, a new key goes last
DictSet(d, k, v) ==
    IF DictHas(d, k)
    THEN [i \in 1..Len(d) |-> IF d[i][1] = k THEN <<k, v>> ELSE d[i]]
    ELSE Append(d, <<k, v>>)

\* ------------------------------------------------------ resolve_placeholder
\* 'size-<n>'
SizeName(n) == <<"size", "-", Digits[n]>>

\* size_mapping of the base.radius branch
radius_size_mapping == <<
    <<SizeName(1), <<"6percent">> >>,   <<SizeName(2), <<"12percent">> >>,
    <<SizeName(3), <<"37percent">> >>,  <<SizeName(4), <<"50percent">> >>,
    <<SizeName(5), <<"75percent">> >>,  <<SizeName(6), <<"100percent">> >>,
    <<SizeName(7), <<"125percent">> >>, <<SizeName(8), <<"150percent">> >>,
    <<SizeName(9), <<"175percent">> >>, << <<"pill">>, <<"500percent">> >>,
    << <<"none">>, <<"0percent">> >> >>

\* size_mapping of the base.gap / padding / margin / spacing branch
spacing_size_mapping == <<
    <<SizeName(1), <<"6percent">> >>,    <<SizeName(2), <<"12percent">> >>,
    <<SizeName(3), <<"37percent">> >>,   <<SizeName(4), <<"50percent">> >>,
    <<SizeName(5), <<"75percent">> >>,   <<SizeName(6), <<"100percent">> >>,
    <<SizeName(7), <<"125percent">> >>,  <<SizeName(8), <<"150percent">> >>,
    <<SizeName(9), <<"175percent">> >>,  <<SizeName(10), <<"200percent">> >>,
    <<SizeName(11), <<"225percent">> >>, <<SizeName(12), <<"250percent">> >>,
    <<SizeName(15), <<"350percent">> >>, <<SizeName(16), <<"400percent">> >>,
    << <<"none">>, <<"0percent">> >> >>

\* f"16px-scale-{percent}"
ScaleToken(percent) == <<"16px", "-", "scale", "-">> \o percent

\* the fallbacks written in resolve_placeholder
ColorFallback == <<"#CCCCCC">>

RadiusFallback == <<"4px">>

SpacingFallback == <<"8px">>

SpacingProps == {<<"gap">>, <<"padding">>, <<"margin">>, <<"spacing">>}

\* what a call of resolve_placeholder yields: the returned value, the
\* resolution stack as the call leaves it, the records it logs, the table
\* lookups it performs in order, and the exception it raises ("" if none)
Outcome(value, stack, log, lookups, exc) ==
    [value |-> value, stack |-> stack, log |-> log, lookups |-> lookups,
     exc |-> exc]

CircularWarning(stack, placeholder) ==
    [level |-> "WARNING", msg |-> "Circular reference detected",
     detail |-> Append(stack, placeholder)]

\* the color branch without the second lookup, under the key that drops the
\* first segment
MutResolveColor(parts, sass_tokens, stack) ==
    LET sass_var_name == Join(parts, "-")
    IN  IF DictHas(sass_tokens, sass_var_name)
        THEN Outcome(DictGet(sass_tokens, sass_var_name), stack, <<>>,
                     <<(<<"sass", sass_var_name>>)>>, "")
        ELSE Outcome(ColorFallback, stack, <<>>, <<(<<"sass", sass_var_name>>)>>, "")

\* the color branch returning nothing when both keys are absent
MutResolveColorNone(parts, sass_tokens, stack) ==
    LET sass_var_name == Join(parts, "-")
        without_prefix == Join(Tail(parts), "-")
    IN  IF DictHas(sass_tokens, sass_var_name)
        THEN Outcome(DictGet(sass_tokens, sass_var_name), stack, <<>>,
                     <<(<<"sass", sass_var_name>>)>>, "")
        ELSE IF Len(parts) > 1 /\ DictHas(sass_tokens, without_prefix)
        THEN Outcome(DictGet(sass_tokens, without_prefix), stack, <<>>,
                     <<(<<"sass", sass_var_name>>), (<<"sass", without_prefix>>)>>, "")
        ELSE Outcome(None, stack, <<>>, <<(<<"sass", sass_var_name>>)>>, "")

\* the color branch
ResolveColor(parts, sass_tokens, stack) ==
    LET sass_var_name == Join(parts, "-")
        without_prefix == Join(Tail(parts), "-")
    IN  IF DictHas(sass_tokens, sass_var_name)
        THEN Outcome(DictGet(sass_tokens, sass_var_name), stack, <<>>,
                     <<(<<"sass", sass_var_name>>)>>, "")
        ELSE IF Len(parts) > 1 /\ DictHas(sass_tokens, without_prefix)
        THEN Outcome(DictGet(sass_tokens, without_prefix), stack, <<>>,
                     <<(<<"sass", sass_var_name>>), (<<"sass", without_prefix>>)>>, "")
        ELSE Outcome(ColorFallback, stack, <<>>,
                     IF Len(parts) > 1
                     THEN <<(<<"sass", sass_var_name>>), (<<"sass", without_prefix>>)>>
                     ELSE <<(<<"sass", sass_var_name>>)>>, "")

\* the scale branches with base_tokens.get(scale_token) and no default
MutResolveScale(parts, base_tokens, stack, size_mapping, fallback) ==
    IF Len(parts) < 3
    THEN Outcome(None, stack, <<>>, <<>>, "IndexError")
    ELSE IF DictHas(size_mapping, parts[3])
    THEN LET scale_token == ScaleToken(DictGet(size_mapping, parts[3]))
         IN  Outcome(DictGetOr(base_tokens, scale_token, None), stack, <<>>,
                     <<(<<"base", scale_token>>)>>, "")
    ELSE Outcome(fallback, stack, <<>>, <<>>, "")

\* the base.radius branch and the base.gap/padding/margin/spacing branch:
\* the size name through the branch's size_mapping, then base_tokens.get
ResolveScale(parts, base_tokens, stack, size_mapping, fallback) ==
    IF Len(parts) < 3
    THEN Outcome(None, stack, <<>>, <<>>, "IndexError")
    ELSE IF DictHas(size_mapping, parts[3])
    THEN LET scale_token == ScaleToken(DictGet(size_mapping, parts[3]))
         IN  Outcome(DictGetOr(base_tokens, scale_token, fallback), stack, <<>>,
                     <<(<<"base", scale_token>>)>>, "")
    ELSE Outcome(fallback, stack, <<>>, <<>>, "")

\* the remaining base.* paths
ResolveBaseOther(parts, base_tokens, stack) ==
    LET base_token_name == Join(Tail(parts), "-")
    IN  IF Len(parts) > 2
        THEN IF DictHas(base_tokens, base_token_name)
             THEN Outcome(DictGet(base_tokens, base_token_name), stack, <<>>,
                          <<(<<"base", base_token_name>>)>>, "")
             ELSE Outcome(None, stack, <<>>, <<(<<"base", base_token_name>>)>>, "")
        ELSE Outcome(None, stack, <<>>, <<>>, "")

\* the comp branch falling back to the neutral color for an absent token
MutResolveComp(parts, resolved_tokens, stack) ==
    LET comp_token_name == Join(parts, "-")
    IN  IF DictHas(resolved_tokens, comp_token_name)
        THEN Outcome(DictGet(resolved_tokens, comp_token_name), stack, <<>>,
                     <<(<<"resolved", comp_token_name>>)>>, "")
        ELSE Outcome(ColorFallback, stack, <<>>, <<(<<"resolved", comp_token_name>>)>>, "")

\* the comp branch: the resolved tokens of the scope, whatever they hold
ResolveComp(parts, resolved_tokens, stack) ==
    LET comp_token_name == Join(parts, "-")
    IN  IF DictHas(resolved_tokens, comp_token_name)
        THEN Outcome(DictGet(resolved_tokens, comp_token_name), stack, <<>>,
                     <<(<<"resolved", comp_token_name>>)>>, "")
        ELSE Outcome(None, stack, <<>>, <<(<<"resolved", comp_token_name>>)>>, "")

\* the guard looking at the top of the stack only
MutOnStack(placeholder, resolution_stack) ==
    /\ resolution_stack # <<>>
    /\ resolution_stack[Len(resolution_stack)] = placeholder

\* the circular-reference guard
OnStack(placeholder, resolution_stack) == InSeq(placeholder, resolution_stack)

\* resolve_placeholder(placeholder, base_tokens, sass_tokens, resolved_tokens,
\* resolution_stack); a resolution_stack of None is the empty list
resolve_placeholder(placeholder, base_tokens, sass_tokens, resolved_tokens, resolution_stack) ==
    IF OnStack(placeholder, resolution_stack)
    THEN Outcome(None, resolution_stack,
                 <<CircularWarning(resolution_stack, placeholder)>>, <<>>, "")
    ELSE
    LET stack == Append(resolution_stack, placeholder)
        placeholder_parts == Split(placeholder, ".")
    IN  IF placeholder_parts[1] = <<"color">>
        THEN ResolveColor(placeholder_parts, sass_tokens, stack)
        ELSE IF placeholder_parts[1] = <<"base">>
        THEN IF Len(placeholder_parts) < 2
             THEN Outcome(None, stack, <<>>, <<>>, "IndexError")
             ELSE IF placeholder_parts[2] = <<"radius">>
             THEN ResolveScale(placeholder_parts, base_tokens, stack,
                               radius_size_mapping, RadiusFallback)
             ELSE IF placeholder_parts[2] \in SpacingProps
             THEN ResolveScale(placeholder_parts, base_tokens, stack,
                               spacing_size_mapping, SpacingFallback)
             ELSE ResolveBaseOther(placeholder_parts, base_tokens, stack)
        ELSE IF placeholder_parts[1] = <<"comp">>
        THEN ResolveComp(placeholder_parts, resolved_tokens, stack)
        ELSE Outcome(None, stack, <<>>, <<>>, "")

\* ------------------------------------------------------------ token text
\* the words joined by sep: Words(<<"comp", "button", "bg">>, "-")
Words(ws, sep) == Join([i \in 1..Len(ws) |-> <<ws[i]>>], sep)

\* a token name, --comp-button-bg
Name(ws) == Words(ws, "-")

\* a placeholder path, comp.button.bg
Path(ws) == Words(ws, ".")

\* the placeholder text "{path}"
Braced(path) == <<"{">> \o path \o <<"}">>

\* ------------------------------------------------------------- inputs
\* every percentage of the two size mappings
Percents ==
    {radius_size_mapping[i][2] : i \in 1..Len(radius_size_mapping)} \cup
    {spacing_size_mapping[i][2] : i \in 1..Len(spacing_size_mapping)}

\* the scale file with every scale token, --16px-scale-<p>: calc 16px-scale-<p>
ScaleValue(key) == <<"calc", " ">> \o key

RECURSIVE ScaleDict(_)
ScaleDict(keys) ==
    IF keys = {} THEN <<>>
    ELSE LET k == CHOOSE x \in keys : TRUE
         IN  <<(<<k, ScaleValue(k)>>)>> \o ScaleDict(keys \ {k})

FullBase == ScaleDict({ScaleToken(p) : p \in Percents})

\* a scale file with two scale tokens only
PartBase == << <<ScaleToken(<<"50percent">>), <<"8px">> >>,
               <<ScaleToken(<<"500percent">>), <<"9999px">> >> >>

BaseMenu == {<<>>, PartBase, FullBase}

\* color files: $color-cerulean-500-main, $cerulean-500-main, both, none
SassFull == << <<Name(<<"color", "cerulean", "500", "main">>), <<"#2D9CDB">> >> >>

SassShort == << <<Name(<<"cerulean", "500", "main">>), <<"#112233">> >> >>

SassMenu == {<<>>, SassFull, SassShort, SassFull \o SassShort}

\* what one theme loads: its base (CSS custom property) and sass tables
StoreMenu == {[base |-> <<>>, sass |-> <<>>],
              [base |-> PartBase, sass |-> SassFull],
              [base |-> FullBase, sass |-> SassShort]}

CeruleanRef == Braced(<<"color", ".", "cerulean", ".", "500", "-", "main">>)

\* k tokens referencing each other in a ring through comp.* placeholders:
\* --comp-ring-<i>-<prop>: {comp.ring.<i+1>.<prop>}
CycleTable(k, prop) ==
    [i \in 1..k |->
        <<Name(<<"comp", "ring", Digits[i], prop>>),
          Braced(Path(<<"comp", "ring", Digits[(i % k) + 1], prop>>))>>]

\* n comp tokens, each referencing the next, the last a color:
\* referrers first (each sweep resolves one more link) ...
ChainTable(n) ==
    [i \in 1..n |->
        <<Name(<<"comp", "step", Digits[i], "bg">>),
          IF i = n THEN CeruleanRef
          ELSE Braced(Path(<<"comp", "step", Digits[i + 1], "bg">>))>>]

\* ... and targets first
Reversed(s) == [i \in 1..Len(s) |-> s[Len(s) + 1 - i]]

\* --a: {b}; --b: {a};
ABTable == << << <<"a">>, Braced(<<"b">>) >>, << <<"b">>, Braced(<<"a">>) >> >>

\* literal text around placeholders, and a literal token
MixedTable ==
    << <<Name(<<"comp", "card", "border">>),
         Braced(Path(<<"base", "radius", "pill">>)) \o <<" ", "solid", " ">> \o
         Braced(Path(<<"color", "missing", "500">>))>>,
       <<Name(<<"comp", "card", "gap">>), <<"8px">> >> >>

\* a comp reference to a token that does not exist, and a reference to the
\* token holding it
DanglingTable ==
    << <<Name(<<"comp", "badge", "bg">>), Braced(Path(<<"comp", "zzz", "bg">>))>>,
       <<Name(<<"comp", "chip", "bg">>), Braced(Path(<<"comp", "badge", "bg">>))>> >>

\* a base path too short for the branch that indexes its third segment
ShortBaseTable ==
    << <<Name(<<"comp", "card", "radius">>), Braced(Path(<<"base", "radius">>))>> >>

\* tokens that reference option tokens only, one with literal text around
\* its placeholders: --comp-button-bg: {color.cerulean.500-main}
ButtonTable ==
    << <<Name(<<"comp", "button", "border">>),
         Braced(<<"base", ".", "gap", ".">> \o SizeName(4)) \o <<" ", "solid", " ">> \o
         CeruleanRef>>,
       <<Name(<<"comp", "button", "bg">>), CeruleanRef>> >>

\* values without a placeholder: no brace, one brace, braces the wrong way
\* round, braces with nothing between them
LiteralTable ==
    << <<Name(<<"comp", "card", "gap">>), <<"8px">> >>,
       <<Name(<<"comp", "card", "open">>), <<"{", "oops">> >>,
       <<Name(<<"comp", "card", "swap">>), <<"}", "x", "{">> >>,
       <<Name(<<"comp", "card", "none">>), <<"{", "}">> >> >>

\* a value with two comp placeholders, the first of which is resolved to
\* the text of the second for as long as its own target is read too early
CaptureTable ==
    << <<Name(<<"comp", "a", "bg">>), Braced(Path(<<"comp", "b", "bg">>))>>,
       <<Name(<<"comp", "b", "bg">>), CeruleanRef>>,
       <<Name(<<"comp", "t", "border">>),
         Braced(Path(<<"comp", "a", "bg">>)) \o <<" ">> \o
         Braced(Path(<<"comp", "b", "bg">>))>> >>

SemanticMenu ==
    {CycleTable(k, prop) : k \in 1..MaxCycle, prop \in {"radius", "bg"}} \cup
    {ChainTable(n) : n \in 1..MaxChain} \cup
    {Reversed(ChainTable(n)) : n \in 1..MaxChain} \cup
    {ABTable, MixedTable, DanglingTable, ShortBaseTable, ButtonTable, LiteralTable,
     CaptureTable}

\* --------------------------------------------------------------- state
VARIABLES
    base_tokens,      \* theme -> dict of the CSS custom properties loaded
    sass_tokens,      \* theme -> dict of the Sass variables loaded
    semantic_tokens,  \* brand -> theme -> dict of the raw semantic tokens
    resolved_tokens,  \* brand -> theme -> dict of the resolved values
    pc,               \* where main is
    brand_i,          \* index in brands of the scope being resolved
    theme_i,          \* index in themes of the scope being resolved
    pass_num,         \* the pass of the scope
    pos,              \* the next item of the sweep
    log,              \* the records logged so far
    output,           \* the blocks written to compiled-tokens.css
    calls,            \* the calls of resolve_placeholder of the last step
    rp_args,          \* the arguments of a direct call of resolve_placeholder
    tokens,           \* the input of a step: flattened tokens, or the files globbed
    result            \* what the classifier has built so far

vars == <<base_tokens, sass_tokens, semantic_tokens, resolved_tokens, pc,
          brand_i, theme_i, pass_num, pos, log, output, calls, rp_args,
          tokens, result>>

Brands == {brands[i] : i \in 1..Len(brands)}

Themes == {themes[i] : i \in 1..Len(themes)}

NoArgs == [placeholder |-> <<>>, base_tokens |-> <<>>, sass_tokens |-> <<>>,
           resolved_tokens |-> <<>>, resolution_stack |-> <<>>]

\* the state of main when the token files are loaded (Steps 1 and 2): both
\* themes of a brand hold the same semantic tokens
Init ==
    /\ \E light \in StoreMenu, dark \in StoreMenu :
          /\ base_tokens = [t \in Themes |-> IF t = "light" THEN light.base ELSE dark.base]
          /\ sass_tokens = [t \in Themes |-> IF t = "light" THEN light.sass ELSE dark.sass]
    /\ \E tables \in [Brands -> SemanticMenu] :
          semantic_tokens = [b \in Brands |-> [t \in Themes |-> tables[b]]]
    /\ resolved_tokens = [b \in Brands |-> [t \in Themes |-> <<>>]]
    /\ pc = "scope"
    /\ brand_i = 1
    /\ theme_i = 1
    /\ pass_num = 0
    /\ pos = 0
    /\ log = <<>>
    /\ output = <<>>
    /\ tokens = <<>>
    /\ result = <<>>
    /\ calls = <<>>
    /\ rp_args = NoArgs

\* ------------------------------------------------------------------ main
\* the scope being resolved
CurBrand == brands[brand_i]

CurTheme == themes[theme_i]

CurSemantic == semantic_tokens[CurBrand][CurTheme]

CurResolved == resolved_tokens[CurBrand][CurTheme]

\* Python truth of an optional str: neither None nor ''
Truthy(v) == v # None /\ v # <<>>

\* one call of resolve_placeholder as main makes it, with what it yields;
\* the call passes no resolution stack
Call(placeholder, base, sass, resolved, stack) ==
    [placeholder |-> placeholder, base_tokens |-> base, sass_tokens |-> sass,
     resolved_tokens |-> resolved, resolution_stack |-> stack,
     out |-> resolve_placeholder(placeholder, base, sass, resolved, stack)]

\* the calls for the placeholders of one token value, up to and including
\* the first that raises
RECURSIVE UntilRaise(_)
UntilRaise(cs) ==
    IF cs = <<>> THEN <<>>
    ELSE IF Head(cs).out.exc # "" THEN <<Head(cs)>>
    ELSE <<Head(cs)>> \o UntilRaise(Tail(cs))

TokenCalls(token_value, base, sass, resolved) ==
    LET placeholders == FindAll(token_value)
    IN  UntilRaise([k \in 1..Len(placeholders) |->
                       Call(placeholders[k], base, sass, resolved, <<>>)])

Raised(cs) == \E k \in 1..Len(cs) : cs[k].out.exc # ""

\* the inner loop leaving after its first placeholder
MutSubstitute(resolved_value, cs) ==
    IF cs = <<>> THEN resolved_value
    ELSE IF Truthy(Head(cs).out.value)
    THEN Replace(resolved_value, Braced(Head(cs).placeholder), Head(cs).out.value)
    ELSE resolved_value

\* the inner loop over the placeholders: each truthy result replaces the
\* text of its placeholder
RECURSIVE Substitute(_, _)
Substitute(resolved_value, cs) ==
    IF cs = <<>> THEN resolved_value
    ELSE Substitute(IF Truthy(Head(cs).out.value)
                    THEN Replace(resolved_value, Braced(Head(cs).placeholder),
                                 Head(cs).out.value)
                    ELSE resolved_value,
                    Tail(cs))

\* the records all the calls log, in order
RECURSIVE CallLogs(_)
CallLogs(cs) == IF cs = <<>> THEN <<>> ELSE Head(cs).out.log \o CallLogs(Tail(cs))

PassInfo(n, brand, theme) ==
    [level |-> "INFO", msg |-> "Resolution pass", detail |-> <<n, brand, theme>>]

ErrorRecord(exc) ==
    [level |-> "ERROR", msg |-> "Unexpected error", detail |-> exc]

\* the scope set up on the raw table itself instead of a table of its own:
\* the None values land in semantic_tokens
MutBeginScope ==
    /\ pc = "scope"
    /\ resolved_tokens' =
          [resolved_tokens EXCEPT ![CurBrand][CurTheme] =
              [i \in 1..Len(CurSemantic) |-> <<CurSemantic[i][1], None>>]]
    /\ semantic_tokens' =
          [semantic_tokens EXCEPT ![CurBrand][CurTheme] =
              [i \in 1..Len(CurSemantic) |-> <<CurSemantic[i][1], None>>]]
    /\ pass_num' = 1
    /\ pc' = "pass"
    /\ calls' = <<>>
    /\ UNCHANGED <<base_tokens, sass_tokens, brand_i, theme_i,
                   pos, log, output, rp_args,
                   tokens, result>>

\* for token_name in semantic_tokens[brand][theme]: resolved[...] = None
BeginScope ==
    /\ pc = "scope"
    /\ resolved_tokens' =
          [resolved_tokens EXCEPT ![CurBrand][CurTheme] =
              [i \in 1..Len(CurSemantic) |-> <<CurSemantic[i][1], None>>]]
    /\ pass_num' = 1
    /\ pc' = "pass"
    /\ calls' = <<>>
    /\ UNCHANGED <<base_tokens, sass_tokens, semantic_tokens, brand_i, theme_i,
                   pos, log, output, rp_args,
                   tokens, result>>

\* a pass that starts from an empty slate: the values of the pass before
\* are set back to None
MutBeginPass ==
    /\ pc = "pass"
    /\ log' = Append(log, PassInfo(pass_num, CurBrand, CurTheme))
    /\ resolved_tokens' =
          [resolved_tokens EXCEPT ![CurBrand][CurTheme] =
              [i \in 1..Len(CurSemantic) |-> <<CurSemantic[i][1], None>>]]
    /\ pos' = 1
    /\ pc' = "token"
    /\ calls' = <<>>
    /\ UNCHANGED <<base_tokens, sass_tokens, semantic_tokens,
                   brand_i, theme_i, pass_num, output, rp_args,
                   tokens, result>>

\* for pass_num in range(1, max_passes + 1): logger.info(...)
BeginPass ==
    /\ pc = "pass"
    /\ log' = Append(log, PassInfo(pass_num, CurBrand, CurTheme))
    /\ pos' = 1
    /\ pc' = "token"
    /\ calls' = <<>>
    /\ UNCHANGED <<base_tokens, sass_tokens, semantic_tokens, resolved_tokens,
                   brand_i, theme_i, pass_num, output, rp_args,
                   tokens, result>>

\* the body of the sweep without its else branch: a value without braces is
\* never copied to the resolved tokens
MutResolveToken ==
    /\ pc = "token"
    /\ pos <= Len(CurSemantic)
    /\ LET token_name == CurSemantic[pos][1]
           token_value == CurSemantic[pos][2]
           cs == IF HasBraces(token_value)
                 THEN TokenCalls(token_value, base_tokens[CurTheme],
                                 sass_tokens[CurTheme], CurResolved)
                 ELSE <<>>
       IN  /\ calls' = cs
           /\ IF Raised(cs)
              THEN /\ pc' = "failed"
                   /\ log' = Append(log \o CallLogs(cs), ErrorRecord(cs[Len(cs)].out.exc))
                   /\ UNCHANGED <<resolved_tokens, pos>>
              ELSE /\ resolved_tokens' =
                         IF HasBraces(token_value)
                         THEN [resolved_tokens EXCEPT ![CurBrand][CurTheme] =
                                 DictSet(@, token_name, Substitute(token_value, cs))]
                         ELSE resolved_tokens
                   /\ log' = log \o CallLogs(cs)
                   /\ pos' = pos + 1
                   /\ pc' = pc
    /\ UNCHANGED <<base_tokens, sass_tokens, semantic_tokens, brand_i, theme_i,
                   pass_num, output, rp_args,
                   tokens, result>>

\* the body of the sweep for one item of semantic_tokens[brand][theme]; an
\* exception leaves main through its except clause
ResolveToken ==
    /\ pc = "token"
    /\ pos <= Len(CurSemantic)
    /\ LET token_name == CurSemantic[pos][1]
           token_value == CurSemantic[pos][2]
           cs == IF HasBraces(token_value)
                 THEN TokenCalls(token_value, base_tokens[CurTheme],
                                 sass_tokens[CurTheme], CurResolved)
                 ELSE <<>>
       IN  /\ calls' = cs
           /\ IF Raised(cs)
              THEN /\ pc' = "failed"
                   /\ log' = Append(log \o CallLogs(cs), ErrorRecord(cs[Len(cs)].out.exc))
                   /\ UNCHANGED <<resolved_tokens, pos>>
              ELSE /\ resolved_tokens' =
                         [resolved_tokens EXCEPT ![CurBrand][CurTheme] =
                             DictSet(@, token_name, Substitute(token_value, cs))]
                   /\ log' = log \o CallLogs(cs)
                   /\ pos' = pos + 1
                   /\ pc' = pc
    /\ UNCHANGED <<base_tokens, sass_tokens, semantic_tokens, brand_i, theme_i,
                   pass_num, output, rp_args,
                   tokens, result>>

\* the pass loop giving up after its second pass
MutEndPassShort ==
    /\ pc = "token"
    /\ pos > Len(CurSemantic)
    /\ calls' = <<>>
    /\ IF pass_num < 2
       THEN /\ pass_num' = pass_num + 1
            /\ pc' = "pass"
            /\ UNCHANGED <<brand_i, theme_i>>
       ELSE /\ pass_num' = 0
            /\ IF theme_i < Len(themes)
               THEN /\ theme_i' = theme_i + 1
                    /\ brand_i' = brand_i
                    /\ pc' = "scope"
               ELSE IF brand_i < Len(brands)
               THEN /\ theme_i' = 1
                    /\ brand_i' = brand_i + 1
                    /\ pc' = "scope"
               ELSE /\ pc' = "emit"
                    /\ UNCHANGED <<brand_i, theme_i>>
    /\ UNCHANGED <<base_tokens, sass_tokens, semantic_tokens, resolved_tokens,
                   pos, log, output, rp_args,
                   tokens, result>>

\* the end of a sweep with the pass loop running one pass too many
MutEndPass ==
    /\ pc = "token"
    /\ pos > Len(CurSemantic)
    /\ calls' = <<>>
    /\ IF pass_num <= max_passes
       THEN /\ pass_num' = pass_num + 1
            /\ pc' = "pass"
            /\ UNCHANGED <<brand_i, theme_i>>
       ELSE /\ pass_num' = 0
            /\ IF theme_i < Len(themes)
               THEN /\ theme_i' = theme_i + 1
                    /\ brand_i' = brand_i
                    /\ pc' = "scope"
               ELSE IF brand_i < Len(brands)
               THEN /\ theme_i' = 1
                    /\ brand_i' = brand_i + 1
                    /\ pc' = "scope"
               ELSE /\ pc' = "emit"
                    /\ UNCHANGED <<brand_i, theme_i>>
    /\ UNCHANGED <<base_tokens, sass_tokens, semantic_tokens, resolved_tokens,
                   pos, log, output, rp_args,
                   tokens, result>>

\* the sweep is over: the next pass, the next scope, or Step 4
EndPass ==
    /\ pc = "token"
    /\ pos > Len(CurSemantic)
    /\ calls' = <<>>
    /\ IF pass_num < max_passes
       THEN /\ pass_num' = pass_num + 1
            /\ pc' = "pass"
            /\ UNCHANGED <<brand_i, theme_i>>
       ELSE /\ pass_num' = 0
            /\ IF theme_i < Len(themes)
               THEN /\ theme_i' = theme_i + 1
                    /\ brand_i' = brand_i
                    /\ pc' = "scope"
               ELSE IF brand_i < Len(brands)
               THEN /\ theme_i' = 1
                    /\ brand_i' = brand_i + 1
                    /\ pc' = "scope"
               ELSE /\ pc' = "emit"
                    /\ UNCHANGED <<brand_i, theme_i>>
    /\ UNCHANGED <<base_tokens, sass_tokens, semantic_tokens, resolved_tokens,
                   pos, log, output, rp_args,
                   tokens, result>>

\* the placeholder colour a theme's blocks are written with
EmitFallback(theme) == IF theme = "light" THEN <<"#CCCCCC">> ELSE <<"#333333">>

\* the declarations of one block: every value that is not None, what is left
\* of its placeholders replaced by the theme's colour
RECURSIVE Declarations(_, _)
Declarations(resolved, theme) ==
    IF resolved = <<>> THEN <<>>
    ELSE LET name == Head(resolved)[1]
             value == Head(resolved)[2]
         IN  (IF value # None
              THEN <<(<<name, IF HasBraces(value)
                              THEN ReSub(value, EmitFallback(theme))
                              ELSE value>>)>>
              ELSE <<>>)
             \o Declarations(Tail(resolved), theme)

\* the :root block: the base tokens both themes hold with the same value
RECURSIVE RootDeclarations(_, _)
RootDeclarations(light, dark) ==
    IF light = <<>> THEN <<>>
    ELSE (IF DictHas(dark, Head(light)[1]) /\ DictGet(dark, Head(light)[1]) = Head(light)[2]
          THEN <<Head(light)>> ELSE <<>>)
         \o RootDeclarations(Tail(light), dark)

Block(kind, brand, theme, decls) ==
    [kind |-> kind, brand |-> brand, theme |-> theme, decls |-> decls]

\* Step 4: compiled-tokens.css, then return 0
Emit ==
    /\ pc = "emit"
    /\ output' =
          <<Block("root", "", "", RootDeclarations(base_tokens["light"], base_tokens["dark"]))>>
          \o Concat([i \in 1..Len(brands) |->
                <<Block("brand", brands[i], "light",
                        Declarations(resolved_tokens[brands[i]]["light"], "light")),
                  Block("brand", brands[i], "dark",
                        Declarations(resolved_tokens[brands[i]]["dark"], "dark"))>>])
          \o <<Block("default", "evydcore", "light",
                     Declarations(resolved_tokens["evydcore"]["light"], "light")),
               Block("default", "evydcore", "dark",
                     Declarations(resolved_tokens["evydcore"]["dark"], "dark"))>>
    /\ pc' = "done"
    /\ calls' = <<>>
    /\ UNCHANGED <<base_tokens, sass_tokens, semantic_tokens, resolved_tokens,
                   brand_i, theme_i, pass_num, pos, log, rp_args,
                   tokens, result>>

Next == BeginScope \/ BeginPass \/ ResolveToken \/ EndPass \/ Emit

Spec == Init /\ [][Next]_vars

\* ------------------------------------------- resolve_placeholder on its own
\* the size names offered: size-1 .. size-MaxSizeProbe, the two named sizes
\* and a name no mapping holds
SizeNames == {SizeName(n) : n \in 1..MaxSizeProbe} \cup {<<"pill">>, <<"none">>, <<"huge">>}

ScaleProps == {"radius", "gap", "padding", "margin", "spacing"}

ScalePaths == {<<"base", ".", prop, ".">> \o size : prop \in ScaleProps, size \in SizeNames}

ColorPaths == {<<"color", ".", "cerulean", ".", "500", "-", "main">>,
               <<"color", ".", "missing", ".", "500">>,
               <<"color">>}

CompPaths == {Path(<<"comp", "button", "bg">>), Path(<<"comp", "zzz", "bg">>)}

OtherPaths == {Path(<<"base", "font", "size">>), Path(<<"base", "16px">>),
               Path(<<"base", "radius">>), <<"base">>, <<"b">>,
               <<"16px", "-", "scale", "-", "50percent">>}

Placeholders == ScalePaths \cup ColorPaths \cup CompPaths \cup OtherPaths

\* resolved tokens of a scope: none, one not yet assigned, one resolved, one
\* holding the placeholder of a token that does not exist
ResolvedMenu ==
    {<<>>,
     << <<Name(<<"comp", "button", "bg">>), None>> >>,
     << <<Name(<<"comp", "button", "bg">>), <<"#2D9CDB">> >> >>,
     << <<Name(<<"comp", "button", "bg">>), Braced(Path(<<"comp", "zzz", "bg">>))>> >>}

\* resolution stacks a caller may hand in: up to two paths under resolution
StackPaths == {<<"color">>, Path(<<"comp", "button", "bg">>),
               Path(<<"base", "radius", "pill">>), <<"b">>}

StackMenu == {<<>>} \cup {<<x>> : x \in StackPaths} \cup
             {<<x, y>> : x \in StackPaths, y \in StackPaths}

\* the call as main writes it: four arguments, no resolution stack
InitRP ==
    /\ rp_args \in [placeholder : Placeholders, base_tokens : BaseMenu,
                    sass_tokens : SassMenu, resolved_tokens : ResolvedMenu,
                    resolution_stack : {<<>>}]
    /\ pc = "call"
    /\ calls = <<>>
    /\ base_tokens = <<>>
    /\ sass_tokens = <<>>
    /\ semantic_tokens = <<>>
    /\ resolved_tokens = <<>>
    /\ brand_i = 0
    /\ theme_i = 0
    /\ pass_num = 0
    /\ pos = 0
    /\ log = <<>>
    /\ output = <<>>
    /\ tokens = <<>>
    /\ result = <<>>

\* the call with a resolution stack handed in
InitStack ==
    /\ rp_args \in [placeholder : StackPaths \cup ColorPaths \cup CompPaths,
                    base_tokens : {<<>>, PartBase},
                    sass_tokens : {<<>>, SassFull}, resolved_tokens : ResolvedMenu,
                    resolution_stack : StackMenu]
    /\ pc = "call"
    /\ calls = <<>>
    /\ base_tokens = <<>>
    /\ sass_tokens = <<>>
    /\ semantic_tokens = <<>>
    /\ resolved_tokens = <<>>
    /\ brand_i = 0
    /\ theme_i = 0
    /\ pass_num = 0
    /\ pos = 0
    /\ log = <<>>
    /\ output = <<>>
    /\ tokens = <<>>
    /\ result = <<>>

\* resolve_placeholder runs on the arguments and returns or raises
CallResolvePlaceholder ==
    /\ pc = "call"
    /\ LET c == Call(rp_args.placeholder, rp_args.base_tokens, rp_args.sass_tokens,
                     rp_args.resolved_tokens, rp_args.resolution_stack)
       IN  /\ calls' = <<c>>
           /\ log' = log \o c.out.log
           /\ pc' = IF c.out.exc = "" THEN "returned" ELSE "raised"
    /\ UNCHANGED <<base_tokens, sass_tokens, semantic_tokens, resolved_tokens,
                   brand_i, theme_i, pass_num, pos, output, rp_args,
                   tokens, result>>

NextRP == CallResolvePlaceholder

SpecRP == InitRP /\ [][NextRP]_vars

SpecStack == InitStack /\ [][NextRP]_vars

\* ====================================================== properties
\* the sweeps of a scope that have begun: its "Resolution pass" records
Sweeps(brand, theme) ==
    Cardinality({i \in 1..Len(log) :
                    /\ log[i].level = "INFO"
                    /\ log[i].detail[2] = brand
                    /\ log[i].detail[3] = theme})

\* the circular-reference warnings logged while a scope was being resolved:
\* those after a pass record of the scope with no other scope's in between
LastInfo(i) == CHOOSE j \in 1..i : /\ log[j].level = "INFO"
                                   /\ \A k \in (j + 1)..i : log[k].level # "INFO"

CircularWarnings(brand, theme) ==
    Cardinality({i \in 1..Len(log) :
                    /\ log[i].level = "WARNING"
                    /\ \E j \in 1..i : log[j].level = "INFO"
                    /\ log[LastInfo(i)].detail[2] = brand
                    /\ log[LastInfo(i)].detail[3] = theme})

\* the token a placeholder path names: its segments joined by "-"
Target(path) == Join(Split(path, "."), "-")

\* the reference graph of a table and the tokens that lie on a cycle of it
Edges(table) ==
    {e \in DictKeys(table) \X DictKeys(table) :
        \E k \in 1..Len(FindAll(DictGet(table, e[1]))) :
            Target(FindAll(DictGet(table, e[1]))[k]) = e[2]}

Compose(R) == {<<e[1][1], e[2][2]>> : e \in {x \in R \X R : x[1][2] = x[2][1]}}

RECURSIVE Closure(_, _)
Closure(R, k) == IF k = 0 THEN R ELSE Closure(R \cup Compose(R), k - 1)

OnCycle(table, name) == <<name, name>> \in Closure(Edges(table), Len(table))

HasCycle(table) == \E n \in DictKeys(table) : OnCycle(table, n)

\* the value compiled-tokens.css gives a token in the block of a scope
Emitted(brand, theme, name) ==
    LET b == CHOOSE i \in 1..Len(output) :
                 /\ output[i].kind = "brand"
                 /\ output[i].brand = brand
                 /\ output[i].theme = theme
    IN  DictGet(output[b].decls, name)

\* the type of a token, read off the property its name ends in, and the
\* documented fallback of that type: the radius default, the default of
\* gap, padding, margin and spacing, the neutral color otherwise
LastWord(name) == name[Len(name)]

DocumentedFallback(name) ==
    IF LastWord(name) = "radius" THEN RadiusFallback
    ELSE IF <<LastWord(name)>> \in SpacingProps THEN SpacingFallback
    ELSE ColorFallback

DocumentedFallbacks == {RadiusFallback, SpacingFallback, ColorFallback}

\* main has returned
Terminated == pc \in {"done", "failed"}

\* ------------------------------------------------------------------ C1
\* an upper bound of the steps main still has to take, from where it is:
\* the rest of the sweep, the passes left in the scope, the scopes left
LongestTable ==
    CHOOSE n \in 0..100 :
        /\ \A b \in Brands, t \in Themes : Len(semantic_tokens[b][t]) <= n
        /\ \E b \in Brands, t \in Themes : Len(semantic_tokens[b][t]) = n

PassCost == LongestTable + 2

ScopeCost == 1 + max_passes * PassCost

ScopesLeft == (Len(brands) - brand_i) * Len(themes) + (Len(themes) - theme_i)

StepsLeft ==
    IF Terminated THEN 0
    ELSE IF pc = "emit" THEN 1
    ELSE 1 + ScopesLeft * ScopeCost +
         (IF pc = "scope" THEN ScopeCost
          ELSE IF pc = "pass" THEN (max_passes - pass_num + 1) * PassCost
          ELSE (max_passes - pass_num) * PassCost + (Len(CurSemantic) - pos + 1) + 1)

\* C1: whatever the token table, cyclic tables included, a scope is swept at
\* most max_passes (5) times and main terminates: the steps left are a
\* natural number that every step of main makes smaller.
C1_SweepsBounded ==
    /\ [](\A b \in Brands, t \in Themes : Sweeps(b, t) <= max_passes)
    /\ [](StepsLeft >= 0)
    /\ [][StepsLeft' < StepsLeft]_vars

\* a cyclic table has been swept max_passes times in every scope and main
\* has returned
C1_Witness ==
    /\ pc = "done"
    /\ HasCycle(semantic_tokens["evydcore"]["light"])
    /\ \A b \in Brands, t \in Themes : Sweeps(b, t) = max_passes

\* ------------------------------------------------------------------ C2
\* C2 (as claimed): when main is done, every token on a reference cycle has
\* the documented fallback of its own type as its final value.
C2_CycleGetsTypeFallback ==
    pc = "done" =>
        \A b \in Brands, t \in Themes :
            \A n \in DictKeys(semantic_tokens[b][t]) :
                OnCycle(semantic_tokens[b][t], n) =>
                    Emitted(b, t, n) = DocumentedFallback(n)

\* ------------------------------------------------------------------ C3
\* C3 (as claimed): resolving a = "{b}", b = "{a}" ends with a and b at a
\* documented fallback and with exactly two circular-reference diagnostics
\* recorded for the scope.
C3_TwoCircularDiagnostics ==
    pc = "done" =>
        \A b \in Brands, t \in Themes :
            semantic_tokens[b][t] = ABTable =>
                /\ Emitted(b, t, <<"a">>) \in DocumentedFallbacks
                /\ Emitted(b, t, <<"b">>) \in DocumentedFallbacks
                /\ CircularWarnings(b, t) = 2

\* ----------------------------------------------- calls of resolve_placeholder
\* the segments of a path, read off its text
Segments(path) == Split(path, ".")

FirstSegment(path) == Segments(path)[1]

\* the path with every "." turned into "-"
Dashed(path) == [i \in 1..Len(path) |-> IF path[i] = "." THEN "-" ELSE path[i]]

\* the text after the first "." of a path, dashed; '' if there is no "."
DashedTail(path) ==
    IF IndexFrom(path, ".", 1) = 0 THEN <<>>
    ELSE Dashed(SubSeq(path, IndexFrom(path, ".", 1) + 1, Len(path)))

\* a call that returned
Returned(c) == c.out.exc = ""

\* ------------------------------------------------------------------ C4
\* C4: a call of resolve_placeholder whose path is already on the resolution
\* stack it is handed returns None, logs the circular reference and nothing
\* else, looks nothing up and leaves the stack as it was.
C4_OnStackReturnsNone ==
    \A k \in 1..Len(calls) :
        InSeq(calls[k].placeholder, calls[k].resolution_stack) =>
            /\ Returned(calls[k])
            /\ calls[k].out.value = None
            /\ Len(calls[k].out.log) = 1
            /\ calls[k].out.log[1].level = "WARNING"
            /\ calls[k].out.log[1].msg = "Circular reference detected"
            /\ calls[k].out.lookups = <<>>
            /\ calls[k].out.stack = calls[k].resolution_stack

\* the call was made with its path second from the top of a stack of two
C4_Witness ==
    /\ pc = "returned"
    /\ Len(calls[1].resolution_stack) = 2
    /\ calls[1].resolution_stack[1] = calls[1].placeholder
    /\ calls[1].resolution_stack[2] # calls[1].placeholder
    /\ calls[1].out.value = None

\* ------------------------------------------------------------------ C5
\* C5: a call for a path whose first segment is "color" returns the sass
\* value under all segments joined by "-"; if there is none, the sass value
\* under all segments but the first joined by "-"; if there is none either,
\* "#CCCCCC"; it never returns None.
C5_ColorLookupOrder ==
    \A k \in 1..Len(calls) :
        FirstSegment(calls[k].placeholder) = <<"color">> =>
            /\ Returned(calls[k])
            /\ calls[k].out.value # None
            /\ calls[k].out.value =
                  IF DictHas(calls[k].sass_tokens, Dashed(calls[k].placeholder))
                  THEN DictGet(calls[k].sass_tokens, Dashed(calls[k].placeholder))
                  ELSE IF DictHas(calls[k].sass_tokens, DashedTail(calls[k].placeholder))
                  THEN DictGet(calls[k].sass_tokens, DashedTail(calls[k].placeholder))
                  ELSE <<"#CCCCCC">>

\* a color call found its value under the key without the first segment
C5_Witness ==
    /\ pc = "returned"
    /\ calls[1].placeholder = <<"color", ".", "cerulean", ".", "500", "-", "main">>
    /\ calls[1].sass_tokens = SassShort
    /\ calls[1].out.value = <<"#112233">>

\* ------------------------------------------------------------------ C6
\* the warnings logged that name a path
Diagnosed(path) ==
    \E i \in 1..Len(log) : log[i].level = "WARNING" /\ InSeq(path, log[i].detail)

\* C6 (as claimed): a color call that finds neither key and returns the
\* fallback color is recorded as a diagnostic naming the path.
C6_ColorMissDiagnosed ==
    \A k \in 1..Len(calls) :
        /\ FirstSegment(calls[k].placeholder) = <<"color">>
        /\ ~DictHas(calls[k].sass_tokens, Dashed(calls[k].placeholder))
        /\ ~DictHas(calls[k].sass_tokens, DashedTail(calls[k].placeholder))
        => Diagnosed(calls[k].placeholder)

\* ------------------------------------------------------------------ C7
\* base.<prop>.<name>...: the property and the size name of a scale path
IsScalePath(path, props) ==
    /\ Len(Segments(path)) >= 3
    /\ FirstSegment(path) = <<"base">>
    /\ Segments(path)[2] \in props

SizeOf(path) == Segments(path)[3]

\* C7: a call for base.radius.<name> returns the value of the scale token
\* 16px-scale-<percent of name> when the base table holds it, and "4px" when
\* the base table does not hold it or the name has no percentage; it neither
\* raises nor returns None.
C7_RadiusFallback ==
    \A k \in 1..Len(calls) :
        IsScalePath(calls[k].placeholder, {<<"radius">>}) =>
            LET name == SizeOf(calls[k].placeholder)
                known == DictHas(radius_size_mapping, name)
                token == <<"16px", "-", "scale", "-">> \o DictGet(radius_size_mapping, name)
            IN  /\ Returned(calls[k])
                /\ calls[k].out.value # None
                /\ calls[k].out.value =
                      IF known /\ DictHas(calls[k].base_tokens, token)
                      THEN DictGet(calls[k].base_tokens, token)
                      ELSE <<"4px">>

\* base.radius.pill was resolved against a base table without
\* 16px-scale-500percent and gave "4px"
C7_Witness ==
    /\ pc = "returned"
    /\ calls[1].placeholder = Path(<<"base", "radius", "pill">>)
    /\ calls[1].base_tokens = <<>>
    /\ calls[1].out.value = <<"4px">>

\* ------------------------------------------------------------------ C8
\* C8 (as claimed): for gap, padding, margin and spacing and each of size-1
\* to size-16, the call derives a scale token 16px-scale-<percent>, looks it
\* up in the base table and returns its value when the table holds it.
C8_SpacingSizesMapped ==
    \A k \in 1..Len(calls) :
        /\ IsScalePath(calls[k].placeholder, SpacingProps)
        /\ SizeOf(calls[k].placeholder) \in {SizeName(n) : n \in 1..16}
        => /\ Returned(calls[k])
           /\ \E i \in 1..Len(calls[k].out.lookups) :
                 LET key == calls[k].out.lookups[i][2]
                 IN  /\ calls[k].out.lookups[i][1] = "base"
                     /\ SubSeq(key, 1, 4) = <<"16px", "-", "scale", "-">>
                     /\ DictHas(calls[k].base_tokens, key) =>
                           calls[k].out.value = DictGet(calls[k].base_tokens, key)

\* ------------------------------------------------------------------ C9
\* the default of a property: what a reference to a size the property has no
\* percentage for resolves to, with nothing in the base table
DefaultOf(prop) ==
    resolve_placeholder(Path(<<"base", prop, "huge">>), <<>>, <<>>, <<>>, <<>>).value

\* C9 (as claimed): the default a gap reference falls back to differs from
\* the radius default and from the padding default.
C9_DefaultsDiffer ==
    \A k \in 1..Len(calls) :
        /\ IsScalePath(calls[k].placeholder, {<<"gap">>})
        /\ Returned(calls[k])
        /\ \A i \in 1..Len(calls[k].out.lookups) :
              ~DictHas(calls[k].base_tokens, calls[k].out.lookups[i][2])
        => /\ calls[k].out.value # DefaultOf("radius")
           /\ calls[k].out.value # DefaultOf("padding")

\* ------------------------------------------------------------------ C10
\* the token the last step of the sweep resolved
LastToken == CurSemantic[pos - 1]

\* a target that is absent from the resolved tokens or has no value yet
Unassigned(resolved, name) == ~DictHas(resolved, name) \/ DictGet(resolved, name) = None

C11_OtherNamespaceLookup ==
    \A k \in 1..Len(calls) :
        /\ FirstSegment(calls[k].placeholder) \notin {<<"color">>, <<"base">>, <<"comp">>}
        /\ DictHas(calls[k].base_tokens, Dashed(calls[k].placeholder))
        => /\ Returned(calls[k])
           /\ calls[k].out.value = DictGet(calls[k].base_tokens, Dashed(calls[k].placeholder))

\* ------------------------------------------------------------------ C12
\* a path of the color namespace or a base.<property>.<size> path
OptionPath(path) ==
    \/ FirstSegment(path) = <<"color">>
    \/ IsScalePath(path, SpacingProps \cup {<<"radius">>})

\* a value with placeholders, all of them option paths
OptionOnly(value) ==
    /\ FindAll(value) # <<>>
    /\ \A k \in 1..Len(FindAll(value)) : OptionPath(FindAll(value)[k])

\* item i of the scope being resolved has been swept in pass 1
SweptOnce(i) == pass_num > 1 \/ (pass_num = 1 /\ pc = "token" /\ i < pos)

\* what a color path resolves to against a sass table
ColorValue(path, sass) ==
    IF DictHas(sass, Dashed(path)) THEN DictGet(sass, Dashed(path))
    ELSE IF DictHas(sass, DashedTail(path)) THEN DictGet(sass, DashedTail(path))
    ELSE <<"#CCCCCC">>

\* C12: once a token whose placeholders are all color or base.radius / gap /
\* padding / margin / spacing paths has been swept in pass 1, wherever it
\* stands in the table, its resolved value holds no placeholder and no
\* brace; a token that is one color placeholder holds that color's value.
C12_OptionRefsResolvedInPassOne ==
    pc \in {"pass", "token"} =>
        \A i \in 1..Len(CurSemantic) :
            SweptOnce(i) /\ OptionOnly(CurSemantic[i][2]) =>
                LET value == DictGet(CurResolved, CurSemantic[i][1])
                IN  /\ value # None
                    /\ FindAll(value) = <<>>
                    /\ ~InSeq("{", value) /\ ~InSeq("}", value)
                    /\ \A p \in {FindAll(CurSemantic[i][2])[1]} :
                          /\ CurSemantic[i][2] = Braced(p)
                          /\ FirstSegment(p) = <<"color">>
                          => value = ColorValue(p, sass_tokens[CurTheme])

\* --comp-button-bg, the last token of its table, has just been swept in
\* pass 1 and holds #2D9CDB; --comp-button-border before it is resolved too
C12_Witness ==
    /\ pc = "token"
    /\ pass_num = 1
    /\ CurSemantic = ButtonTable
    /\ pos = 3
    /\ DictGet(CurResolved, Name(<<"comp", "button", "bg">>)) = <<"#2D9CDB">>
    /\ FindAll(DictGet(CurResolved, Name(<<"comp", "button", "border">>))) = <<>>

\* ------------------------------------------------------------------ C13
\* the tokens of a scope that are resolved: a value and no placeholder in it
ResolvedCount(resolved) ==
    Cardinality({i \in 1..Len(resolved) :
                    resolved[i][2] # None /\ FindAll(resolved[i][2]) = <<>>})

\* C13 (as claimed): a pass is only begun when every pass before it resolved
\* at least one token more than the pass before that; so when pass n begins,
\* at least n - 1 tokens of the scope are resolved.
C13_StopsWithoutProgress ==
    pc = "pass" => ResolvedCount(CurResolved) >= pass_num - 1

\* ------------------------------------------------------------------ C14
\* a raw value without a well-formed placeholder
Literal(value) == FindAll(value) = <<>>

\* the scopes in the order main resolves them, and those already resolved
ScopeIndex(brand, theme) ==
    LET b == CHOOSE i \in 1..Len(brands) : brands[i] = brand
        t == CHOOSE i \in 1..Len(themes) : themes[i] = theme
    IN  (b - 1) * Len(themes) + t

ScopeDone(brand, theme) ==
    \/ pc \in {"emit", "done"}
    \/ /\ pc \in {"scope", "pass", "token"}
       /\ ScopeIndex(brand, theme) < ScopeIndex(CurBrand, CurTheme)

\* C14: a token whose raw value holds no well-formed placeholder (no brace,
\* or braces that do not pair up around text) has no resolved value other
\* than its raw value, in any pass; it has it after its first sweep, it
\* still has it when the scope is resolved, and it is emitted unchanged.
C14_LiteralUnchanged ==
    /\ \A b \in Brands, t \in Themes :
          \A i \in 1..Len(resolved_tokens[b][t]) :
              Literal(semantic_tokens[b][t][i][2]) =>
                  /\ resolved_tokens[b][t][i][2] \in {None, semantic_tokens[b][t][i][2]}
                  /\ ScopeDone(b, t) =>
                        resolved_tokens[b][t][i][2] = semantic_tokens[b][t][i][2]
    /\ pc \in {"pass", "token"} =>
          \A i \in 1..Len(CurSemantic) :
              SweptOnce(i) /\ Literal(CurSemantic[i][2]) =>
                  DictGet(CurResolved, CurSemantic[i][1]) = CurSemantic[i][2]
    /\ pc = "done" =>
          \A b \in Brands, t \in Themes :
              \A i \in 1..Len(semantic_tokens[b][t]) :
                  Literal(semantic_tokens[b][t][i][2]) =>
                      Emitted(b, t, semantic_tokens[b][t][i][1]) = semantic_tokens[b][t][i][2]

\* main is done with a table of literal values, the ones with stray braces
\* among them, and has emitted each as it was written
C14_Witness ==
    /\ pc = "done"
    /\ semantic_tokens["bruhealth"]["dark"] = LiteralTable
    /\ Emitted("bruhealth", "dark", Name(<<"comp", "card", "swap">>)) = <<"}", "x", "{">>
    /\ Emitted("bruhealth", "dark", Name(<<"comp", "card", "open">>)) = <<"{", "oops">>
    /\ Emitted("bruhealth", "dark", Name(<<"comp", "card", "gap">>)) = <<"8px">>

\* ------------------------------------------------------------------ C15
\* C15: no step of main adds, removes or rewrites an entry of the raw
\* semantic, base or sass tables; a step of the resolution changes, of the
\* tables, the resolved tokens only.
C15_RawTablesUnchanged ==
    [][/\ semantic_tokens' = semantic_tokens
       /\ base_tokens' = base_tokens
       /\ sass_tokens' = sass_tokens]_vars

\* a sweep has given a token a resolved value that differs from its raw
\* value, and the raw value is still the placeholder
C15_Witness ==
    /\ pc = "token"
    /\ pos = 2
    /\ CurSemantic = ButtonTable
    /\ CurResolved[1][2] # None
    /\ CurResolved[1][2] # CurSemantic[1][2]
    /\ CurSemantic[1][2] = ButtonTable[1][2]

\* ------------------------------------------------------------------ C16
\* C16 (as claimed): whatever placeholder paths the values hold, main does
\* not abort, and when it has returned every token of every scope has a
\* value in compiled-tokens.css.
C16_RunCompletes ==
    /\ pc # "failed"
    /\ pc = "done" =>
          \A b \in Brands, t \in Themes :
              \A i \in 1..Len(semantic_tokens[b][t]) :
                  \E j \in 1..Len(output) :
                      /\ output[j].kind = "brand"
                      /\ output[j].brand = b
                      /\ output[j].theme = t
                      /\ DictHas(output[j].decls, semantic_tokens[b][t][i][1])

\* ============================================ src/token-extractor.py
\* ------------------------------------------------------ process_tokens
\* A token path is a sequence of lexemes like every other text here; "/"
\* is a lexeme of its own next to ".", "-" and " ".

\* the most tokens handed to process_tokens
MaxTokens == 2

\* pat in s
Contains(s, pat) == \E i \in 1..Len(s) : OccursAt(s, pat, i)

\* s.startswith(prefix)
StartsWith(s, prefix) == OccursAt(s, prefix, 1)

scale_terms ==
    <<"spacing", "sizing", "radius", "border", "scale", "base", "gap", "padding",
      "width", "height">>

font_terms == <<"font", "typography", "fontFamily", "fontSize", "fontWeight">>

\* the ".base.<term>." texts that send a brand token to the scale tokens
BaseScaleTerms == {"radius", "gap", "padding", "width", "height"}

IsBaseScale(token_path) ==
    \E term \in BaseScaleTerms : Contains(token_path, <<".", "base", ".", term, ".">>)

\* result as process_tokens creates it
EmptyResult ==
    [optionTokens |-> [colors |-> <<>>, scale |-> <<>>, font |-> <<>>],
     semanticTokens |-> [brands |-> [evydcore |-> <<>>, bruhealth |-> <<>>],
                         themes |-> [light |-> <<>>, dark |-> <<>>]]]

\* where the body of the loop stores a token: <<"optionTokens", kind>>,
\* <<"brands", brand>>, or <<>> when no branch assigns it
Bucket(token_path) ==
    IF \/ StartsWith(token_path, <<"color", "/", "Light">>)
       \/ StartsWith(token_path, <<"color", "/", "Dark">>)
    THEN <<"optionTokens", "colors">>
    ELSE IF StartsWith(token_path, <<"scale", "/", "option", "-", "token">>)
    THEN <<"optionTokens", "scale">>
    ELSE IF StartsWith(token_path, <<"font", "/", "option", "-", "token">>)
    THEN <<"optionTokens", "font">>
    ELSE IF StartsWith(token_path, <<"brands", "/", "EVYDCore">>)
    THEN IF IsBaseScale(token_path) THEN <<"optionTokens", "scale">>
         ELSE <<"brands", "evydcore">>
    ELSE IF StartsWith(token_path, <<"brands", "/", "BruHealth">>)
    THEN IF IsBaseScale(token_path) THEN <<"optionTokens", "scale">>
         ELSE <<"brands", "bruhealth">>
    ELSE LET parts == Split(token_path, ".")
         IN  IF InSeq(<<"color">>, parts)
             THEN <<"optionTokens", "colors">>
             ELSE IF \E k \in 1..Len(scale_terms) : InSeq(<<scale_terms[k]>>, parts)
             THEN <<"optionTokens", "scale">>
             ELSE IF \E k \in 1..Len(font_terms) : InSeq(<<font_terms[k]>>, parts)
             THEN <<"optionTokens", "font">>
             ELSE <<>>

\* the token paths offered to process_tokens
PathMenu ==
    { <<"color", "/", "Light", ".", "color", ".", "red", ".", "500">>,
      <<"color", "/", "Dark", ".", "color", ".", "red", ".", "500">>,
      <<"scale", "/", "option", "-", "token", ".", "base", ".", "gap", ".", "size", "-", "2">>,
      <<"font", "/", "option", "-", "token", ".", "font", ".", "size", ".", "md">>,
      <<"brands", "/", "EVYDCore", ".", "base", ".", "radius", ".", "sm">>,
      <<"brands", "/", "EVYDCore", ".", "comp", ".", "button", ".", "bg">>,
      <<"brands", "/", "BruHealth", ".", "base", ".", "gap", ".", "md">>,
      <<"brands", "/", "BruHealth", ".", "comp", ".", "button", ".", "bg">>,
      <<"theme", ".", "color", ".", "accent">>,
      <<"layout", ".", "spacing", ".", "md">>,
      <<"type", ".", "typography", ".", "body">>,
      <<"colors", ".", "primary">>,
      <<"misc", ".", "shadow", ".", "card">>,
      <<"effects", ".", "opacity", ".", "50">> }

\* the data of a token; process_tokens stores it and never reads it
TokenData(token_path) == [type |-> "other", value |-> <<"v">>]

\* the dicts of up to n tokens with keys in paths, in every insertion order
RECURSIVE TokenDicts(_, _)
TokenDicts(paths, n) ==
    IF n = 0 THEN {<<>>}
    ELSE LET shorter == TokenDicts(paths, n - 1)
         IN  shorter \cup
             {Append(d, <<p, TokenData(p)>>) :
                 d \in {e \in shorter : Len(e) = n - 1},
                 p \in paths}

DistinctKeys(d) == \A i, j \in 1..Len(d) : d[i][1] = d[j][1] => i = j

\* main's variables when a classifier runs on its own
MainIdle ==
    /\ base_tokens = <<>>
    /\ sass_tokens = <<>>
    /\ semantic_tokens = <<>>
    /\ resolved_tokens = <<>>
    /\ brand_i = 0
    /\ theme_i = 0
    /\ pass_num = 0
    /\ log = <<>>
    /\ output = <<>>
    /\ calls = <<>>
    /\ rp_args = NoArgs

MainVars ==
    <<base_tokens, sass_tokens, semantic_tokens, resolved_tokens, brand_i,
      theme_i, pass_num, log, output, calls, rp_args>>

InitProcess ==
    /\ tokens \in {d \in TokenDicts(PathMenu, MaxTokens) : DistinctKeys(d)}
    /\ result = EmptyResult
    /\ pc = "categorize"
    /\ pos = 1
    /\ MainIdle

\* the body of 'for token_path, token_data in tokens.items()'
CategorizeToken ==
    /\ pc = "categorize"
    /\ pos <= Len(tokens)
    /\ LET token_path == tokens[pos][1]
           token_data == tokens[pos][2]
           bucket == Bucket(token_path)
       IN  result' =
              IF bucket = <<>> THEN result
              ELSE IF bucket[1] = "optionTokens"
              THEN [result EXCEPT !.optionTokens[bucket[2]] =
                       DictSet(@, token_path, token_data)]
              ELSE [result EXCEPT !.semanticTokens.brands[bucket[2]] =
                       DictSet(@, token_path, token_data)]
    /\ pos' = pos + 1
    /\ UNCHANGED <<pc, tokens>>
    /\ UNCHANGED MainVars

\* return result
ReturnResult ==
    /\ pc = "categorize"
    /\ pos > Len(tokens)
    /\ pc' = "returned"
    /\ UNCHANGED <<pos, tokens, result>>
    /\ UNCHANGED MainVars

NextProcess == CategorizeToken \/ ReturnResult

SpecProcess == InitProcess /\ [][NextProcess]_vars

\* ------------------------------------------------------------------ C17
\* the tokens in the buckets of the result of process_tokens
Stored ==
    Len(result.optionTokens.colors) + Len(result.optionTokens.scale)
    + Len(result.optionTokens.font)
    + Len(result.semanticTokens.brands.evydcore)
    + Len(result.semanticTokens.brands.bruhealth)
    + Len(result.semanticTokens.themes.light)
    + Len(result.semanticTokens.themes.dark)

\* C17 (as claimed): process_tokens drops no token: when it returns, the
\* buckets of its result hold as many tokens as it was handed (no path
\* handed in is deprecated), a token no rule matches among them.
C17_NoTokenDropped ==
    pc = "returned" => Stored = Len(tokens)

\* ==================================== src/scripts/token-extractor.py
\* ----------------------------------------------- organize_option_colors
\* The statements are taken in the nesting their text has; the break of
\* line 1809 is indented deeper than the if it closes.

\* the most color tokens fed to organize_option_colors
MaxColors == 3

\* str.lower() of a word; the words with capitals are those of the paths
LowerWord(w) ==
    CASE w = "Light" -> "light"
      [] w = "Dark" -> "dark"
      [] w = "EVYDCore" -> "evydcore"
      [] w = "evydCore" -> "evydcore"
      [] w = "bruHealth" -> "bruhealth"
      [] w = "BruHealth" -> "bruhealth"
      [] w = "(WIP)" -> "(wip)"
      [] OTHER -> w

Lower(s) == [i \in 1..Len(s) |-> LowerWord(s[i])]

\* the lower-case words of the paths that hold a keyword inside them
Infix ==
    {<<"depr", "deprecated">>, <<"brand", "brands">>, <<"dark", "darker">>,
     <<"xs", "2xs">>, <<"xl", "2xl">>, <<"xl", "3xl">>, <<"xl", "4xl">>,
     <<"bold", "semibold">>}

\* keyword in s, for a keyword of letters only: it is a word of s or lies
\* within one
KeywordIn(keyword, s) ==
    \E i \in 1..Len(s) : s[i] = keyword \/ <<keyword, s[i]>> \in Infix

semantic_keywords ==
    <<"error", "warning", "success", "info", "primary", "secondary", "tertiary",
      "brand", "accent", "danger", "alert", "notification">>

\* the hue names of lines 1802-1805, in their order
palette_names ==
    <<"red", "blue", "green", "yellow", "purple", "orange", "pink", "teal", "indigo",
      "cyan", "amber", "lime", "emerald", "violet", "fuchsia", "sky", "turquoise",
      "cobalt", "brick", "marmalade", "jade", "merigold", "grape", "lemon",
      "cerulean", "lavender", "stone", "crimson", "sea", "rose">>

\* result_categories when none is handed in
EmptyCategories == [semantic |-> <<>>, neutral |-> <<>>, palette |-> <<>>, other |-> <<>>]

\* parts[-1] of token_path.split('.')
LastPart(token_path) == Split(token_path, ".")[Len(Split(token_path, "."))]

\* name-1, name-2, ...
Suffixed(name, counter) == name \o <<"-", Digits[counter]>>

\* the while loop of lines 1764-1768: the name itself if it is free, else
\* the first of name-1, name-2, ... that is
RECURSIVE NextFree(_, _, _)
NextFree(category, original_name, counter) ==
    IF ~DictHas(category, Suffixed(original_name, counter))
    THEN Suffixed(original_name, counter)
    ELSE NextFree(category, original_name, counter + 1)

\* the name written without the loop: an entry of that name is replaced
MutUniqueName(category, original_name) == original_name

UniqueName(category, original_name) ==
    IF ~DictHas(category, original_name) THEN original_name
    ELSE NextFree(category, original_name, 1)

\* the first hue name in token_path.lower(), 0 if none
RECURSIVE FirstHue(_, _)
FirstHue(lower_path, k) ==
    IF k > Len(palette_names) THEN 0
    ELSE IF KeywordIn(palette_names[k], lower_path) THEN k
    ELSE FirstHue(lower_path, k + 1)

\* the tests of lines 1730-1747 that return result_categories as it is
Skipped(token_path, token_data) ==
    \/ token_data.type # "color"
    \/ KeywordIn("depr", Lower(token_path))
    \/ KeywordIn("dark", Lower(token_path))
    \/ Contains(token_path, <<"Dark", " ", "(WIP)">>)
    \/ Contains(token_path, <<"brands", "/">>)

is_semantic(token_path) ==
    \E k \in 1..Len(semantic_keywords) : KeywordIn(semantic_keywords[k], Lower(token_path))

is_neutral(token_path) ==
    /\ KeywordIn("neutral", Lower(token_path))
    /\ ~Contains(Lower(token_path), <<"neutral", "-", "depr">>)

\* the category a token is stored in and its name before the collision
\* loop, <<category, name>>; <<"", <<>>>> for a token that is skipped
Naive(token_path, token_data) ==
    LET token_name == LastPart(token_path)
        shade == Lower(LastPart(token_path))
        hue == FirstHue(Lower(token_path), 1)
    IN  IF Skipped(token_path, token_data) THEN <<"", <<>>>>
        ELSE IF is_semantic(token_path)
        THEN <<"semantic", Lower(<<"color", "-">> \o token_name)>>
        ELSE IF /\ is_neutral(token_path)
                /\ Contains(token_path, <<"Light", ".", "color", ".", "neutral">>)
        THEN <<"neutral",
               Replace(Replace(Lower(<<"color", "-", "neutral", "-">> \o shade),
                               <<"-", "white">>, <<>>),
                       <<"-", "black">>, <<>>)>>
        ELSE IF hue # 0
        THEN <<"palette",
               Replace(Replace(Lower(<<"color", "-", palette_names[hue], "-">> \o shade),
                               <<" ", "white">>, <<>>),
                       <<" ", "black">>, <<>>)>>
        ELSE <<"other", Lower(<<"color", "-">> \o token_name)>>

organize_option_colors(token_path, token_data, result_categories) ==
    LET naive == Naive(token_path, token_data)
        category == naive[1]
    IN  IF category = "" THEN result_categories
        ELSE [result_categories EXCEPT ![category] =
                 DictSet(@, UniqueName(@, naive[2]), token_data.value)]

\* the color tokens offered, <<token_path, token type>>
ColorMenu ==
    { <<(<<"color", "/", "Light", ".", "color", ".", "error", ".", "500">>), "color">>,
      <<(<<"color", "/", "Light", ".", "color", ".", "warning", ".", "500">>), "color">>,
      <<(<<"color", "/", "Light", ".", "color", ".", "primary", ".", "500">>), "color">>,
      <<(<<"color", "/", "Light", ".", "color", ".", "neutral", ".", "0", "-", "white">>), "color">>,
      <<(<<"color", "/", "Light", ".", "color", ".", "neutral", ".", "0">>), "color">>,
      <<(<<"theme", ".", "neutral", ".", "100">>), "color">>,
      <<(<<"color", "/", "Light", ".", "color", ".", "red", ".", "500">>), "color">>,
      <<(<<"color", "/", "Dark", ".", "color", ".", "red", ".", "500">>), "color">>,
      <<(<<"color", "/", "Light", ".", "color", ".", "red", "-", "depr", ".", "500">>), "color">>,
      <<(<<"brands", "/", "EVYDCore", ".", "color", ".", "accent">>), "color">>,
      <<(<<"color", "/", "Light", ".", "border", ".", "red", ".", "500">>), "border">> }

\* the value of a token: one per path
ColorData(token) == [type |-> token[2], value |-> <<"#">> \o token[1]]

\* the sequences of up to n different tokens of the menu
RECURSIVE ColorTokens(_)
ColorTokens(n) ==
    IF n = 0 THEN {<<>>}
    ELSE LET shorter == ColorTokens(n - 1)
         IN  shorter \cup
             {Append(d, <<t[1], ColorData(t)>>) :
                 d \in {e \in shorter : Len(e) = n - 1}, t \in ColorMenu}

\* result["colors"] is empty and the tokens of grouped_tokens["color"] are
\* fed in one by one (lines 560-561)
InitColors ==
    /\ tokens \in {d \in ColorTokens(MaxColors) : Len(d) > 0 /\ DistinctKeys(d)}
    /\ result = EmptyCategories
    /\ pc = "colors"
    /\ pos = 1
    /\ MainIdle

\* result["colors"] = organize_option_colors(token_path, token_data,
\*                                           result["colors"])
OrganizeColor ==
    /\ pc = "colors"
    /\ pos <= Len(tokens)
    /\ result' = organize_option_colors(tokens[pos][1], tokens[pos][2], result)
    /\ pos' = pos + 1
    /\ pc' = IF pos = Len(tokens) THEN "organized" ELSE "colors"
    /\ UNCHANGED tokens
    /\ UNCHANGED MainVars

NextColors == OrganizeColor

SpecColors == InitColors /\ [][NextColors]_vars

\* ------------------------------------------------------------------ C18
ColorCategories == {"semantic", "neutral", "palette", "other"}

\* the tokens fed so far that were stored in category c, in feeding order
FedInto(c) ==
    SelectSeq([i \in 1..(pos - 1) |-> i],
              LAMBDA i : Naive(tokens[i][1], tokens[i][2])[1] = c)

NaiveName(i) == Naive(tokens[i][1], tokens[i][2])[2]

ClaimedCategory(token_path) ==
    IF \/ KeywordIn("depr", Lower(token_path))
       \/ KeywordIn("dark", Lower(token_path))
       \/ Contains(token_path, <<"brands", "/">>)
    THEN ""
    ELSE IF is_semantic(token_path) THEN "semantic"
    ELSE IF is_neutral(token_path) THEN "neutral"
    ELSE IF FirstHue(Lower(token_path), 1) # 0 THEN "palette"
    ELSE "other"

\* the categories that hold an entry with this value
HeldIn(value) ==
    {c \in ColorCategories : \E k \in 1..Len(result[c]) : result[c][k][2] = value}

\* C19 (as claimed): a token of type color that has been fed is in no
\* category when its path has a deprecated, dark or brand marker, and
\* otherwise in exactly the category of the order semantic keyword,
\* neutral marker, hue name, other.
C19_FirstMatchOrder ==
    pc \in {"colors", "organized"} =>
        \A i \in 1..(pos - 1) :
            tokens[i][2].type = "color" =>
                HeldIn(tokens[i][2].value) =
                    IF ClaimedCategory(tokens[i][1]) = "" THEN {}
                    ELSE {ClaimedCategory(tokens[i][1])}

\* ============================================ src/token-extractor.py
\* ------------------------------------------------ organize_option_scale
\* the most scale tokens handed to organize_option_scale
MaxScale == 2

ScaleCategories == <<"spacing", "sizing", "radius", "borders", "elevation", "other">>

EmptyScale == [c \in {ScaleCategories[k] : k \in 1..Len(ScaleCategories)} |-> <<>>]

\* patterns, in the order of the dict; a pattern is the set of the texts
\* it matches (z-?index matches two)
patterns ==
    << <<"spacing", <<{<<"spacing">>}, {<<"space">>}, {<<"gap">>}, {<<"margin">>},
                      {<<"padding">>}, {<<"indent">>}, {<<"inset">>}>> >>,
       <<"sizing", <<{<<"size">>}, {<<"width">>}, {<<"height">>}, {<<"scale">>},
                     {<<"dimension">>}>> >>,
       <<"radius", <<{<<"radius">>}, {<<"corner">>}, {<<"rounded">>}, {<<"pill">>}>> >>,
       <<"borders", <<{<<"border">>}, {<<"stroke">>}, {<<"outline">>}, {<<"thickness">>}>> >>,
       <<"elevation", <<{<<"elevation">>}, {<<"zindex">>, <<"z", "-", "index">>},
                        {<<"layer">>}, {<<"level">>}>> >> >>

\* size_names, in the order of the dict
size_names ==
    << <<"none", 0>>, <<"2xs", 10>>, <<"xs", 20>>, <<"sm", 30>>, <<"md", 40>>,
       <<"lg", 50>>, <<"xl", 60>>, <<"2xl", 70>>, <<"3xl", 80>>, <<"4xl", 90>>,
       <<"pill", 100>> >>

\* re.search(pattern, text): a text of one word is looked for as a keyword
Search(pattern, text) ==
    \E alt \in pattern :
        IF Len(alt) = 1 THEN KeywordIn(alt[1], text) ELSE Contains(text, alt)

\* the number a word starts with or is, -1 if it holds no digit
NumberOf(w) ==
    IF \E n \in 1..Len(Digits) : Digits[n] = w
    THEN CHOOSE n \in 1..Len(Digits) : Digits[n] = w
    ELSE CASE w = "50" -> 50
           [] w = "2xs" -> 2
           [] w = "2xl" -> 2
           [] w = "3xl" -> 3
           [] w = "4xl" -> 4
           [] OTHER -> -1

\* int(re.search(r'(\d+)', text).group(1)), -1 if there is no match
RECURSIVE FirstNumber(_)
FirstNumber(text) ==
    IF text = <<>> THEN -1
    ELSE IF NumberOf(Head(text)) # -1 THEN NumberOf(Head(text))
    ELSE FirstNumber(Tail(text))

\* re.sub(r'[^a-zA-Z0-9\-]', '', text): of the lexemes of a path only the
\* words and "-" stay
Clean(text) == SelectSeq(text, LAMBDA w : w \notin {".", "/", " "})

\* the index of the first size name in text, 0 if none
RECURSIVE FirstSizeName(_, _)
FirstSizeName(text, k) ==
    IF k > Len(size_names) THEN 0
    ELSE IF KeywordIn(size_names[k][1], text) THEN k
    ELSE FirstSizeName(text, k + 1)

\* the t-shirt size of a number (lines 1893-1910)
ShirtSize(n) ==
    IF n <= 1 THEN "2xs" ELSE IF n <= 2 THEN "xs" ELSE IF n <= 4 THEN "sm"
    ELSE IF n <= 8 THEN "md" ELSE IF n <= 16 THEN "lg" ELSE IF n <= 24 THEN "xl"
    ELSE IF n <= 32 THEN "2xl" ELSE IF n <= 48 THEN "3xl" ELSE "4xl"

standardize_name(token_path, category) ==
    LET last == Split(token_path, "/")[Len(Split(token_path, "/"))]
        original_name == Lower(LastPart(last))
        prefix == <<"scale", "-", category>>
        k == FirstSizeName(original_name, 1)
    IN  IF k # 0 THEN prefix \o <<"-", size_names[k][1]>>
        ELSE IF FirstNumber(original_name) # -1
        THEN prefix \o <<"-", ShirtSize(FirstNumber(original_name))>>
        ELSE prefix \o <<"-">> \o Clean(original_name)

sort_key_for_token(token_name) ==
    LET k == FirstSizeName(token_name, 1)
    IN  IF k # 0 THEN size_names[k][2]
        ELSE IF FirstNumber(token_name) # -1 THEN FirstNumber(token_name)
        ELSE 1000

\* the first category of patterns one of whose patterns is found in
\* token_path.lower(), 0 if none
RECURSIVE FirstPattern(_, _)
FirstPattern(lower_path, k) ==
    IF k > Len(patterns) THEN 0
    ELSE IF \E j \in 1..Len(patterns[k][2]) : Search(patterns[k][2][j], lower_path)
    THEN k
    ELSE FirstPattern(lower_path, k + 1)

\* what the body of the loop assigns for a token: <<category, name>>
ScaleEntry(token_path) ==
    LET lower_path == Lower(token_path)
        token_name == Lower(Split(token_path, "/")[Len(Split(token_path, "/"))])
        k == FirstPattern(lower_path, 1)
    IN  IF k # 0
        THEN <<patterns[k][1], standardize_name(token_path, patterns[k][1])>>
        ELSE IF KeywordIn("base", lower_path)
        THEN IF KeywordIn("radius", lower_path)
             THEN <<"radius", standardize_name(token_path, "radius")>>
             ELSE IF KeywordIn("gap", lower_path) \/ KeywordIn("padding", lower_path)
             THEN <<"spacing", standardize_name(token_path, "spacing")>>
             ELSE IF KeywordIn("width", lower_path) \/ KeywordIn("height", lower_path)
             THEN <<"sizing", standardize_name(token_path, "sizing")>>
             ELSE <<"other", <<"scale", "-", "base", "-">> \o token_name>>
        ELSE <<"other", <<"scale", "-">> \o Clean(token_name)>>

\* sorted(d.keys(), key=sort_key_for_token) rebuilt as a dict: a stable
\* insertion sort
RECURSIVE InsertSorted(_, _)
InsertSorted(sorted, item) ==
    IF sorted = <<>> THEN <<item>>
    ELSE IF sort_key_for_token(Head(sorted)[1]) <= sort_key_for_token(item[1])
    THEN <<Head(sorted)>> \o InsertSorted(Tail(sorted), item)
    ELSE <<item>> \o sorted

RECURSIVE SortedDict(_)
SortedDict(d) ==
    IF d = <<>> THEN <<>>
    ELSE InsertSorted(SortedDict(SubSeq(d, 1, Len(d) - 1)), d[Len(d)])

\* the scale token paths offered
ScaleMenu ==
    { <<"tokens", ".", "border", ".", "pill">>,
      <<"tokens", ".", "border", ".", "sm">>,
      <<"tokens", ".", "elevation", ".", "size", "-", "2">>,
      <<"tokens", ".", "elevation", ".", "md">>,
      <<"scale", "/", "option", "-", "token", ".", "base", ".", "gap", ".", "size", "-", "4">>,
      <<"scale", "/", "option", "-", "token", ".", "base", ".", "gap", ".", "size", "-", "2">>,
      <<"scale", "/", "option", "-", "token", ".", "base", ".", "gap", ".", "sm">>,
      <<"scale", "/", "option", "-", "token", ".", "base", ".", "radius", ".", "none">>,
      <<"core", ".", "base", ".", "radius", ".", "md">>,
      <<"core", ".", "base", ".", "font", ".", "md">>,
      <<"core", ".", "opacity", ".", "50">> }

ScaleData(token_path) == [type |-> "dimension", value |-> <<"#">> \o token_path]

RECURSIVE ScaleTokens(_)
ScaleTokens(n) ==
    IF n = 0 THEN {<<>>}
    ELSE LET shorter == ScaleTokens(n - 1)
         IN  shorter \cup
             {Append(d, <<p, ScaleData(p)>>) :
                 d \in {e \in shorter : Len(e) = n - 1}, p \in ScaleMenu}

\* calls holds, for each token of the loop so far, where it was assigned
InitScale ==
    /\ tokens \in {d \in ScaleTokens(MaxScale) : DistinctKeys(d)}
    /\ result = EmptyScale
    /\ pc = "scale"
    /\ pos = 1
    /\ MainIdle

\* the body of 'for token_path, token_data in tokens.items()'
AssignScale ==
    /\ pc = "scale"
    /\ pos <= Len(tokens)
    /\ LET token_path == tokens[pos][1]
           value == tokens[pos][2].value
           entry == ScaleEntry(token_path)
       IN  /\ result' = [result EXCEPT ![entry[1]] = DictSet(@, entry[2], value)]
           /\ calls' = Append(calls, [token_path |-> token_path,
                                      category |-> entry[1], name |-> entry[2]])
    /\ pos' = pos + 1
    /\ UNCHANGED <<pc, tokens>>
    /\ UNCHANGED <<base_tokens, sass_tokens, semantic_tokens, resolved_tokens,
                   brand_i, theme_i, pass_num, log, output, rp_args>>

\* the sort of every category and the return
SortScale ==
    /\ pc = "scale"
    /\ pos > Len(tokens)
    /\ result' = [c \in DOMAIN result |-> SortedDict(result[c])]
    /\ pc' = "sorted"
    /\ UNCHANGED <<pos, tokens>>
    /\ UNCHANGED MainVars

NextScale == AssignScale \/ SortScale

SpecScale == InitScale /\ [][NextScale]_vars

\* ------------------------------------------------------------------ C20
\* the size suffixes a path can end in
SizeSuffixes ==
    {<<"size", "-", Digits[n]>> : n \in 1..16}
    \cup {<<size_names[k][1]>> : k \in 1..Len(size_names)}

EndsWith(path, suffix) ==
    Len(suffix) <= Len(path) /\ SubSeq(path, Len(path) - Len(suffix) + 1, Len(path)) = suffix

\* two paths that differ in the size suffix they end in and in nothing else
DifferInSuffix(p, q) ==
    /\ p # q
    /\ \E s, t \in SizeSuffixes :
          /\ EndsWith(p, s) /\ EndsWith(q, t)
          /\ SubSeq(p, 1, Len(p) - Len(s)) = SubSeq(q, 1, Len(q) - Len(t))

\* C20 (as claimed): two scale tokens whose paths differ only in the size
\* suffix they end in are assigned to the same category.
C20_SuffixNotCategory ==
    \A i, j \in 1..Len(calls) :
        pc \in {"scale", "sorted"} /\ DifferInSuffix(calls[i].token_path, calls[j].token_path)
        => calls[i].category = calls[j].category

\* ------------------------------------------------------------------ C23
\* one sweep, from item i on, of a scope taken by itself: the resolved
\* table it leaves, and whether a call raised
RECURSIVE SweepAlone(_, _, _, _, _)
SweepAlone(semantic, base, sass, st, i) ==
    IF st.raised \/ i > Len(semantic) THEN st
    ELSE LET cs == IF HasBraces(semantic[i][2])
                   THEN TokenCalls(semantic[i][2], base, sass, st.resolved)
                   ELSE <<>>
         IN  IF Raised(cs) THEN [st EXCEPT !.raised = TRUE]
             ELSE SweepAlone(semantic, base, sass,
                             [st EXCEPT !.resolved =
                                 DictSet(@, semantic[i][1], Substitute(semantic[i][2], cs))],
                             i + 1)

RECURSIVE PassesAlone(_, _, _, _, _)
PassesAlone(semantic, base, sass, st, n) ==
    IF st.raised \/ n > max_passes THEN st
    ELSE PassesAlone(semantic, base, sass, SweepAlone(semantic, base, sass, st, 1), n + 1)

\* what a scope resolves to as a function of its own semantic tokens and
\* its theme's base and sass tables, and of nothing else
ScopeAlone(semantic, base, sass) ==
    PassesAlone(semantic, base, sass,
                [resolved |-> [i \in 1..Len(semantic) |-> <<semantic[i][1], None>>],
                 raised |-> FALSE],
                1).resolved

\* C23 (as claimed): when main has ended, the resolved values of every
\* scope are those its own semantic tokens and its theme's base and sass
\* tables give, whatever the tokens of the other brand and the tables of
\* the other theme are.
C23_ScopeIndependent ==
    pc \in {"done", "failed"} =>
        \A b \in Brands, t \in Themes :
            resolved_tokens[b][t] =
                ScopeAlone(semantic_tokens[b][t], base_tokens[t], sass_tokens[t])

\* ------------------------------------------------------------------ C25
\* the value the resolver returned for a placeholder of the last token
ReturnedFor(placeholder, cs) ==
    cs[CHOOSE k \in 1..Len(cs) : cs[k].placeholder = placeholder].out.value

\* every placeholder with a truthy result replaced by it, all at once: the
\* text between the matches m is kept, from position i on
RECURSIVE AtOnceFrom(_, _, _, _)
AtOnceFrom(s, m, i, cs) ==
    IF m = <<>> THEN SubSeq(s, i, Len(s))
    ELSE LET placeholder == SubSeq(s, m[1][1] + 1, m[1][2] - 1)
             value == ReturnedFor(placeholder, cs)
         IN  SubSeq(s, i, m[1][1] - 1)
             \o (IF Truthy(value) THEN value ELSE SubSeq(s, m[1][1], m[1][2]))
             \o AtOnceFrom(s, Tail(m), m[1][2] + 1, cs)

AtOnce(raw, cs) == AtOnceFrom(raw, Matches(raw, 1), 1, cs)

\* the token the last step of the sweep resolved
JustResolved == pc = "token" /\ pos > 1 /\ pos - 1 <= Len(CurSemantic)

NoCapture(cs) ==
    \A j, k \in 1..Len(cs) :
        Truthy(cs[j].out.value) => ~Contains(cs[j].out.value, Braced(cs[k].placeholder))

C26_ResolvedAbsorbing ==
    [][\A b \in Brands, t \in Themes :
          \A i \in 1..Len(resolved_tokens[b][t]) :
              /\ resolved_tokens[b][t][i][2] # None
              /\ FindAll(resolved_tokens[b][t][i][2]) = <<>>
              => resolved_tokens'[b][t][i] = resolved_tokens[b][t][i]]_vars

\* the first token of a chain of two was resolved in pass 2 and has been
\* swept again in pass 3
C26_Witness ==
    /\ pc = "token"
    /\ pass_num = 3
    /\ pos = 2
    /\ CurSemantic = ChainTable(2)
    /\ CurResolved[1][2] = ColorValue(<<"color", ".", "cerulean", ".", "500", "-", "main">>,
                                      sass_tokens[CurTheme])

\* ------------------------------------------------------------------ C27
\* the longest chain whose tokens are drawn in every order
MaxOrder == 4

\* a chain of n comp tokens, each the placeholder of the next, the last a
\* placeholder of an option token
ChainEnding(n, ref) ==
    [i \in 1..n |->
        <<Name(<<"comp", "step", Digits[i], "bg">>),
          IF i = n THEN ref
          ELSE Braced(Path(<<"comp", "step", Digits[i + 1], "bg">>))>>]

Orders(n) == {f \in [1..n -> 1..n] : \A i, j \in 1..n : f[i] = f[j] => i = j}

\* the tables that hold a chain of up to MaxOrder tokens, in every order
ChainMenu ==
    UNION {{[i \in 1..n |-> ChainEnding(n, ref)[f[i]]] : f \in Orders(n)} :
              n \in 1..MaxOrder,
              ref \in {CeruleanRef, Braced(<<"base", ".", "gap", ".">> \o SizeName(4))}}

\* main with the token files loaded: every brand holds the same chain
InitChain ==
    /\ \E store \in StoreMenu :
          /\ base_tokens = [t \in Themes |-> store.base]
          /\ sass_tokens = [t \in Themes |-> store.sass]
    /\ \E table \in ChainMenu :
          semantic_tokens = [b \in Brands |-> [t \in Themes |-> table]]
    /\ resolved_tokens = [b \in Brands |-> [t \in Themes |-> <<>>]]
    /\ pc = "scope"
    /\ brand_i = 1
    /\ theme_i = 1
    /\ pass_num = 0
    /\ pos = 0
    /\ log = <<>>
    /\ output = <<>>
    /\ tokens = <<>>
    /\ result = <<>>
    /\ calls = <<>>
    /\ rp_args = NoArgs

SpecChain == InitChain /\ [][Next]_vars

\* the value of the option token a chain ends in
RECURSIVE ChainEnd(_, _, _)
ChainEnd(table, base, sass) ==
    LET ref == FindAll(Head(table)[2])[1]
    IN  IF FirstSegment(ref) = <<"comp">> THEN ChainEnd(Tail(table), base, sass)
        ELSE resolve_placeholder(ref, base, sass, <<>>, <<>>).value

\* the sweep of pass n of the scope is over
SweptTimes(n) == pass_num > n \/ (pass_num = n /\ pc = "token" /\ pos > Len(CurSemantic))

MaxFiles == 2

Newline == "\n"

Whitespace == {" ", Newline}

\* the lexemes outside [a-zA-Z0-9-]
NotNameChars == Whitespace \cup {":", ";", "{", "}", ".", "/", "*"}

\* the end of the longest run of [a-zA-Z0-9-] from i: the index after it
RECURSIVE NameEnd(_, _)
NameEnd(content, i) ==
    IF i <= Len(content) /\ content[i] \notin NotNameChars
    THEN NameEnd(content, i + 1) ELSE i

\* the end of the longest run of \s from i
RECURSIVE SpaceEnd(_, _)
SpaceEnd(content, i) ==
    IF i <= Len(content) /\ content[i] \in Whitespace
    THEN SpaceEnd(content, i + 1) ELSE i

\* the end of the longest run of [^;] from i
RECURSIVE ValueEnd(_, _)
ValueEnd(content, i) ==
    IF i <= Len(content) /\ content[i] /= ";"
    THEN ValueEnd(content, i + 1) ELSE i

\* str.strip()
RECURSIVE strip(_)
strip(s) ==
    IF s = <<>> THEN s
    ELSE IF Head(s) \in Whitespace THEN strip(Tail(s))
    ELSE IF s[Len(s)] \in Whitespace THEN strip(SubSeq(s, 1, Len(s) - 1))
    ELSE s

\* re.findall(r'--([a-zA-Z0-9-]+):\s*([^;]+);', content) from index i: the
\* (name, value) groups of the non-overlapping matches, leftmost first.
\* \s* gives a space back when nothing else is left for [^;]+.
RECURSIVE findall(_, _)
findall(content, i) ==
    IF i + 1 > Len(content) THEN <<>>
    ELSE LET n == NameEnd(content, i + 2)
             k == SpaceEnd(content, n + 1)
             m == ValueEnd(content, n + 1)
             v == IF k < m THEN k ELSE k - 1
             matched == /\ content[i] = "-"
                        /\ content[i + 1] = "-"
                        /\ n > i + 2
                        /\ n <= Len(content)
                        /\ content[n] = ":"
                        /\ m > n + 1
                        /\ m <= Len(content)
         IN  IF matched
             THEN <<<<SubSeq(content, i + 2, n - 1), SubSeq(content, v, m - 1)>>>>
                  \o findall(content, m + 1)
             ELSE findall(content, i + 1)

\* one declaration as it stands in a file
Decl(name, before, value, after) ==
    <<"-", "-">> \o name \o <<":">> \o before \o value \o after \o <<";", Newline>>

\* the files a directory may hold; the last one cannot be decoded
FileMenu ==
    {[content |-> Decl(Name(<<"comp", "a", "bg">>), <<" ">>, <<"red">>, <<>>) \o
                  Decl(Name(<<"comp", "b", "bg">>), <<" ">>, CeruleanRef, <<>>),
      readable |-> TRUE],
     [content |-> <<"/", "*", " ", "brand", " ", "*", "/", Newline>> \o
                  Decl(Name(<<"comp", "a", "bg">>), <<>>, <<"1px", " ", "solid">>, <<>>) \o
                  Decl(Name(<<"comp", "a", "bg">>), <<" ", " ">>, <<"teal">>, <<" ">>) \o
                  Decl(Name(<<"comp", "c", "bg">>), <<" ">>, <<>>, <<>>),
      readable |-> TRUE],
     [content |-> Decl(Name(<<"comp", "a", "bg">>), <<" ">>, <<"grey">>, <<>>),
      readable |-> FALSE]}

\* what glob may return: up to n of the files, no file twice, in any order
RECURSIVE Globs(_, _)
Globs(files, n) ==
    IF n = 0 THEN {<<>>}
    ELSE LET shorter == Globs(files, n - 1)
         IN  shorter \cup
             {Append(g, f) : g \in {h \in shorter : Len(h) = n - 1},
                             f \in files}

NoFileTwice(g) == \A i, j \in 1..Len(g) : g[i] = g[j] => i = j

FileError(kind) ==
    [level |-> "ERROR", msg |-> "Error processing file", detail |-> kind]

\* 'for name, value in token_matches' of a brand file: both themes of
\* the brand take the stripped value
RECURSIVE StoreBrand(_, _, _)
StoreBrand(semantic, brand, matches) ==
    IF matches = <<>> THEN semantic
    ELSE LET name  == Head(matches)[1]
             value == strip(Head(matches)[2])
         IN  StoreBrand([semantic EXCEPT ![brand] =
                            [t \in Themes |-> DictSet(@[t], name, value)]],
                        brand, Tail(matches))

\* 'for name, value in token_matches' of a common file: 'for brand in brands'
RECURSIVE StoreCommon(_, _)
StoreCommon(semantic, matches) ==
    IF matches = <<>> THEN semantic
    ELSE LET name  == Head(matches)[1]
             value == strip(Head(matches)[2])
         IN  StoreCommon([b \in Brands |->
                             [t \in Themes |-> DictSet(semantic[b][t], name, value)]],
                         Tail(matches))

LoadIdle ==
    /\ base_tokens = <<>>
    /\ sass_tokens = <<>>
    /\ resolved_tokens = <<>>
    /\ theme_i = 0
    /\ pass_num = 0
    /\ output = <<>>
    /\ calls = <<>>
    /\ rp_args = NoArgs
    /\ result = <<>>

LoadVars ==
    <<base_tokens, sass_tokens, resolved_tokens, theme_i, pass_num, output,
      calls, rp_args, result, tokens>>

\* main at line 200: the directory globbed, no file read yet
InitLoad ==
    /\ \E common \in Globs(FileMenu, MaxFiles) :
       \E brand \in [Brands -> Globs(FileMenu, MaxFiles)] :
          /\ NoFileTwice(common)
          /\ \A b \in Brands : NoFileTwice(brand[b])
          /\ tokens = [common |-> common, brand |-> brand]
    /\ semantic_tokens = [b \in Brands |-> [t \in Themes |-> <<>>]]
    /\ pc = "common"
    /\ brand_i = 0
    /\ pos = 1
    /\ log = <<>>
    /\ LoadIdle

\* the body of 'for file_path in common_semantic_files'
LoadCommonFile ==
    /\ pc = "common"
    /\ pos <= Len(tokens.common)
    /\ LET file == tokens.common[pos]
       IN  IF file.readable
           THEN /\ semantic_tokens' = StoreCommon(semantic_tokens, findall(file.content, 1))
                /\ log' = log
           ELSE /\ log' = Append(log, FileError("common"))
                /\ UNCHANGED semantic_tokens
    /\ pos' = pos + 1
    /\ UNCHANGED <<pc, brand_i>>
    /\ UNCHANGED LoadVars

\* the common files are done: 'for brand in brands' begins
BeginBrands ==
    /\ pc = "common"
    /\ pos > Len(tokens.common)
    /\ pc' = "brand"
    /\ brand_i' = 1
    /\ pos' = 1
    /\ UNCHANGED <<semantic_tokens, log>>
    /\ UNCHANGED LoadVars

\* a file read first leaves its values to a file read later: the store
\* keeps what it already holds
MutLoadBrandFile ==
    /\ pc = "brand"
    /\ pos <= Len(tokens.brand[brands[brand_i]])
    /\ LET file == tokens.brand[brands[brand_i]][pos]
           kept == semantic_tokens[brands[brand_i]]
           new  == StoreBrand(semantic_tokens, brands[brand_i], findall(file.content, 1))
       IN  IF file.readable
           THEN /\ semantic_tokens' =
                      [new EXCEPT ![brands[brand_i]] =
                          [t \in Themes |->
                              [i \in 1..Len(@[t]) |->
                                  IF DictHas(kept[t], @[t][i][1])
                                  THEN <<@[t][i][1], DictGet(kept[t], @[t][i][1])>>
                                  ELSE @[t][i]]]]
                /\ log' = log
           ELSE /\ log' = Append(log, FileError("brand"))
                /\ UNCHANGED semantic_tokens
    /\ pos' = pos + 1
    /\ UNCHANGED <<pc, brand_i>>
    /\ UNCHANGED LoadVars

\* the body of 'for file_path in brand_files'
LoadBrandFile ==
    /\ pc = "brand"
    /\ pos <= Len(tokens.brand[brands[brand_i]])
    /\ LET file == tokens.brand[brands[brand_i]][pos]
       IN  IF file.readable
           THEN /\ semantic_tokens' =
                      StoreBrand(semantic_tokens, brands[brand_i], findall(file.content, 1))
                /\ log' = log
           ELSE /\ log' = Append(log, FileError("brand"))
                /\ UNCHANGED semantic_tokens
    /\ pos' = pos + 1
    /\ UNCHANGED <<pc, brand_i>>
    /\ UNCHANGED LoadVars

\* the files of a brand are done: the next brand, or Step 3
EndBrand ==
    /\ pc = "brand"
    /\ pos > Len(tokens.brand[brands[brand_i]])
    /\ IF brand_i < Len(brands)
       THEN /\ brand_i' = brand_i + 1
            /\ pos' = 1
            /\ pc' = pc
       ELSE /\ pc' = "loaded"
            /\ UNCHANGED <<brand_i, pos>>
    /\ UNCHANGED <<semantic_tokens, log>>
    /\ UNCHANGED LoadVars

NextLoad == LoadCommonFile \/ BeginBrands \/ LoadBrandFile \/ EndBrand

SpecLoad == InitLoad /\ [][NextLoad]_vars

\* the declarations of the files of a list that were read, file after
\* file, as written: name and value between the colon and the semicolon
RECURSIVE Read(_)
Read(files) ==
    IF files = <<>> THEN <<>>
    ELSE (IF Head(files).readable THEN findall(Head(files).content, 1) ELSE <<>>)
         \o Read(Tail(files))

Defines(files, name) == \E i \in 1..Len(Read(files)) : Read(files)[i][1] = name

\* the value of the last declaration of the name, without the space around it
LastValue(files, name) ==
    LET ds == Read(files)
        i  == CHOOSE k \in 1..Len(ds) :
                 /\ ds[k][1] = name
                 /\ \A l \in (k + 1)..Len(ds) : ds[l][1] /= name
    IN  strip(ds[i][2])

LoadedNames == {Name(<<"comp", x, "bg">>) : x \in {"a", "b", "c"}}

\* C29: once the files are loaded, a name declared both in a common file
\* and in a file of a brand holds, in both themes of that brand, the value
\* of the brand's file, and in both themes of a brand whose files do not
\* declare it, the value of the common file.
C29_BrandOverridesCommon ==
    pc = "loaded" =>
        \A name \in LoadedNames, b \in Brands, t \in Themes :
            Defines(tokens.common, name) =>
                /\ DictHas(semantic_tokens[b][t], name)
                /\ DictGet(semantic_tokens[b][t], name) =
                      IF Defines(tokens.brand[b], name)
                      THEN LastValue(tokens.brand[b], name)
                      ELSE LastValue(tokens.common, name)

\* comp-a-bg is red in the common file and teal in the file of evydcore;
\* bruhealth has no file: evydcore shows teal, bruhealth red
C29_Witness ==
    /\ pc = "loaded"
    /\ Len(tokens.common) = 1
    /\ Len(tokens.brand["evydcore"]) = 1
    /\ tokens.brand["bruhealth"] = <<>>
    /\ \A t \in Themes :
          /\ DictHas(semantic_tokens["evydcore"][t], Name(<<"comp", "a", "bg">>))
          /\ DictGet(semantic_tokens["evydcore"][t], Name(<<"comp", "a", "bg">>)) = <<"teal">>
          /\ DictHas(semantic_tokens["bruhealth"][t], Name(<<"comp", "a", "bg">>))
          /\ DictGet(semantic_tokens["bruhealth"][t], Name(<<"comp", "a", "bg">>)) = <<"red">>

\* ------------------------------------------------------------------ C30
\* C30 (as claimed): no scale token takes the entry of another: when the
\* loop is over every category holds as many entries as tokens were
\* assigned to it, a token whose name was taken having got a suffix.
C30_ScaleCollisionsSuffixed ==
    pc = "sorted" =>
        \A c \in DOMAIN result :
            Len(result[c]) = Cardinality({i \in 1..Len(calls) : calls[i].category = c})

\* ------------------------------------------------- organize_option_font
\* the most font tokens handed to organize_option_font
MaxFont == 2

\* the categories, in the order of the dict
FontCategories ==
    <<"family", "weight", "size", "line-height", "letter-spacing", "style",
      "system", "other">>

EmptyFont == [c \in {FontCategories[k] : k \in 1..Len(FontCategories)} |-> <<>>]

\* patterns of organize_option_font, in the order of the dict
font_patterns ==
    << <<"family", <<{<<"family">>}, {<<"face">>}, {<<"font", "-", "family">>},
                     {<<"typeface">>}>> >>,
       <<"weight", <<{<<"weight">>}, {<<"bold">>}, {<<"regular">>}, {<<"medium">>},
                     {<<"light">>}, {<<"thin">>}, {<<"thick">>}, {<<"heavy">>},
                     {<<"black">>}, {<<"semibold">>}>> >>,
       <<"size", <<{<<"size">>}, {<<"font", "-", "size">>}>> >>,
       <<"line-height", <<{<<"line", "-", "height">>}, {<<"leading">>}>> >>,
       <<"letter-spacing", <<{<<"letter", "-", "spacing">>}, {<<"tracking">>},
                             {<<"kerning">>}>> >>,
       <<"style", <<{<<"style">>}, {<<"italic">>}, {<<"oblique">>}, {<<"normal">>},
                    {<<"decoration">>}>> >>,
       <<"system", <<{<<"system">>}, {<<"heading">>}, {<<"body">>}, {<<"caption">>},
                     {<<"label">>}, {<<"display">>}, {<<"title">>}, {<<"paragraph">>},
                     {<<"text">>}>> >> >>

\* size_names of organize_option_font, in the order of the dict
font_size_names ==
    << <<"2xs", 10>>, <<"xs", 20>>, <<"sm", 30>>, <<"md", 40>>, <<"lg", 50>>,
       <<"xl", 60>>, <<"2xl", 70>>, <<"3xl", 80>>, <<"4xl", 90>>, <<"5xl", 100>>,
       <<"6xl", 110>> >>

\* weight_map, in the order of the dict
weight_map ==
    << <<<<"thin">>, 100>>, <<<<"extra", "-", "light">>, 200>>, <<<<"light">>, 300>>,
       <<<<"regular">>, 400>>, <<<<"normal">>, 400>>, <<<<"medium">>, 500>>,
       <<<<"semibold">>, 600>>, <<<<"semi", "-", "bold">>, 600>>, <<<<"bold">>, 700>>,
       <<<<"extra", "-", "bold">>, 800>>, <<<<"extrabold">>, 800>>,
       <<<<"black">>, 900>>, <<<<"heavy">>, 900>> >>

system_terms ==
    <<"heading", "body", "caption", "label", "display", "title", "paragraph">>

\* the lexemes of a category's name
CategoryText(category) ==
    CASE category = "line-height" -> <<"line", "-", "height">>
      [] category = "letter-spacing" -> <<"letter", "-", "spacing">>
      [] OTHER -> <<category>>

\* the index of the first entry of a dict of texts or words found in text,
\* 0 if none
RECURSIVE FirstIn(_, _, _)
FirstIn(keys, text, k) ==
    IF k > Len(keys) THEN 0
    ELSE IF Search({keys[k]}, text) THEN k
    ELSE FirstIn(keys, text, k + 1)

WeightKeys == [k \in 1..Len(weight_map) |-> weight_map[k][1]]

FontSizeKeys == [k \in 1..Len(font_size_names) |-> <<font_size_names[k][1]>>]

SystemKeys == [k \in 1..Len(system_terms) |-> <<system_terms[k]>>]

\* the weight name of a number (lines 2071-2091)
WeightName(n) ==
    IF n <= 100 THEN <<"thin">> ELSE IF n <= 200 THEN <<"extra", "-", "light">>
    ELSE IF n <= 300 THEN <<"light">> ELSE IF n <= 400 THEN <<"regular">>
    ELSE IF n <= 500 THEN <<"medium">> ELSE IF n <= 600 THEN <<"semibold">>
    ELSE IF n <= 700 THEN <<"bold">> ELSE IF n <= 800 THEN <<"extra", "-", "bold">>
    ELSE <<"black">>

\* the size name of a number (lines 2103-2128)
FontSizeName(n) ==
    IF n <= 10 THEN "2xs" ELSE IF n <= 12 THEN "xs" ELSE IF n <= 14 THEN "sm"
    ELSE IF n <= 16 THEN "md" ELSE IF n <= 18 THEN "lg" ELSE IF n <= 20 THEN "xl"
    ELSE IF n <= 24 THEN "2xl" ELSE IF n <= 30 THEN "3xl" ELSE IF n <= 36 THEN "4xl"
    ELSE IF n <= 48 THEN "5xl" ELSE "6xl"

\* standardize_name of organize_option_font
font_standardize_name(token_path, category) ==
    LET last == Split(token_path, "/")[Len(Split(token_path, "/"))]
        original_name == Lower(LastPart(last))
        prefix == <<"font", "-">> \o CategoryText(category)
        number == FirstNumber(original_name)
        w == FirstIn(WeightKeys, original_name, 1)
        z == FirstIn(FontSizeKeys, original_name, 1)
        y == FirstIn(SystemKeys, original_name, 1)
    IN  CASE category = "weight" ->
               IF w # 0 THEN prefix \o <<"-">> \o weight_map[w][1]
               ELSE IF number # -1 THEN prefix \o <<"-">> \o WeightName(number)
               ELSE prefix \o <<"-">> \o original_name
          [] category = "size" ->
               IF z # 0 THEN prefix \o <<"-", font_size_names[z][1]>>
               ELSE IF number # -1 THEN prefix \o <<"-", FontSizeName(number)>>
               ELSE prefix \o <<"-">> \o original_name
          [] category = "system" ->
               IF y # 0
               THEN IF number # -1
                    THEN prefix \o <<"-", system_terms[y], "-", Digits[number]>>
                    ELSE prefix \o <<"-", system_terms[y]>>
               ELSE prefix \o <<"-">> \o original_name
          [] OTHER -> prefix \o <<"-">> \o Clean(original_name)

\* the first category of font_patterns one of whose patterns is found in
\* the lower-cased path, 0 if none
RECURSIVE FirstFontPattern(_, _)
FirstFontPattern(token_name, k) ==
    IF k > Len(font_patterns) THEN 0
    ELSE IF \E j \in 1..Len(font_patterns[k][2]) : Search(font_patterns[k][2][j], token_name)
    THEN k
    ELSE FirstFontPattern(token_name, k + 1)

\* what the body of the loop assigns for a token: <<category, name>>
FontEntry(token_path) ==
    LET path_parts == Split(token_path, "/")
        token_name == Lower(token_path)
        k == FirstFontPattern(token_name, 1)
    IN  IF k # 0
        THEN <<font_patterns[k][1], font_standardize_name(token_path, font_patterns[k][1])>>
        ELSE <<"other", <<"font", "-">> \o Clean(Lower(path_parts[Len(path_parts)]))>>

\* the order a system name gets from its type (lines 2180-2196)
SystemOrder(token_name) ==
    IF KeywordIn("display", token_name) THEN 100
    ELSE IF KeywordIn("heading", token_name) THEN 200
    ELSE IF KeywordIn("title", token_name) THEN 300
    ELSE IF KeywordIn("body", token_name) THEN 400
    ELSE IF KeywordIn("paragraph", token_name) THEN 500
    ELSE IF KeywordIn("label", token_name) THEN 600
    ELSE IF KeywordIn("caption", token_name) THEN 700
    ELSE 1000

\* sort_key_for_token of organize_option_font: a number, or the name itself
font_sort_key(token_name, category) ==
    LET number == FirstNumber(token_name)
        w == FirstIn(WeightKeys, token_name, 1)
        z == FirstIn(FontSizeKeys, token_name, 1)
        int(n) == [kind |-> "int", n |-> n, s |-> <<>>]
        str == [kind |-> "str", n |-> 0, s |-> token_name]
    IN  CASE category = "size" ->
               IF z # 0 THEN int(font_size_names[z][2])
               ELSE IF number # -1 THEN int(number) ELSE str
          [] category = "weight" ->
               IF w # 0 THEN int(weight_map[w][2])
               ELSE IF number # -1 THEN int(number) ELSE str
          [] category = "system" ->
               int(SystemOrder(token_name) + (IF number # -1 THEN number ELSE 0))
          [] OTHER -> str

\* the words of the names, in the order of str
Alphabet == <<"-", "1", "16", "2", "7", "bar", "body", "bold", "caption", "display", "family", "font", "foo", "heading", "height", "inter", "label", "letter", "lg", "line", "md", "misc", "other", "roboto", "semibold", "size", "spacing", "style", "system", "thin", "typography", "weight">>

WordRank(w) == CHOOSE k \in 1..Len(Alphabet) : Alphabet[k] = w

\* a <= b of two str
RECURSIVE StrLe(_, _)
StrLe(a, b) ==
    IF a = <<>> THEN TRUE
    ELSE IF b = <<>> THEN FALSE
    ELSE IF Head(a) = Head(b) THEN StrLe(Tail(a), Tail(b))
    ELSE WordRank(Head(a)) < WordRank(Head(b))

KeyLe(x, y) == IF x.kind = "int" THEN x.n <= y.n ELSE StrLe(x.s, y.s)

\* sorted() compares a number with a str: TypeError
MixedKeys(d, category) ==
    \E i, j \in 1..Len(d) :
        font_sort_key(d[i][1], category).kind # font_sort_key(d[j][1], category).kind

RECURSIVE InsertFont(_, _, _)
InsertFont(sorted, item, category) ==
    IF sorted = <<>> THEN <<item>>
    ELSE IF KeyLe(font_sort_key(Head(sorted)[1], category), font_sort_key(item[1], category))
    THEN <<Head(sorted)>> \o InsertFont(Tail(sorted), item, category)
    ELSE <<item>> \o sorted

RECURSIVE SortedFont(_, _)
SortedFont(d, category) ==
    IF d = <<>> THEN <<>>
    ELSE InsertFont(SortedFont(SubSeq(d, 1, Len(d) - 1), category), d[Len(d)], category)

\* the font token paths offered
FontMenu ==
    { <<"typography", ".", "heading", ".", "size">>,
      <<"typography", ".", "body", ".", "weight">>,
      <<"typography", ".", "heading", ".", "bold">>,
      <<"typography", ".", "caption", ".", "semibold">>,
      <<"typography", ".", "heading", ".", "2">>,
      <<"typography", ".", "label", ".", "heading", "-", "1">>,
      <<"typography", ".", "size", ".", "16">>,
      <<"typography", ".", "size", ".", "md">>,
      <<"typography", ".", "family", ".", "inter">>,
      <<"typography", ".", "family", ".", "roboto">>,
      <<"typography", "/", "misc">>,
      <<"font", "/", "typography", ".", "display", ".", "lg">>,
      <<"typography", ".", "weight", ".", "7">> }

RECURSIVE FontTokens(_)
FontTokens(n) ==
    IF n = 0 THEN {<<>>}
    ELSE LET shorter == FontTokens(n - 1)
         IN  shorter \cup
             {Append(d, <<p, ScaleData(p)>>) :
                 d \in {e \in shorter : Len(e) = n - 1}, p \in FontMenu}

\* calls holds, for each token of the loop so far, where it was assigned
InitFont ==
    /\ tokens \in {d \in FontTokens(MaxFont) : DistinctKeys(d)}
    /\ result = EmptyFont
    /\ pc = "font"
    /\ pos = 1
    /\ MainIdle

\* the body of 'for token_path, token_data in tokens.items()'
AssignFont ==
    /\ pc = "font"
    /\ pos <= Len(tokens)
    /\ LET token_path == tokens[pos][1]
           value == tokens[pos][2].value
           entry == FontEntry(token_path)
       IN  /\ result' = [result EXCEPT ![entry[1]] = DictSet(@, entry[2], value)]
           /\ calls' = Append(calls, [token_path |-> token_path,
                                      category |-> entry[1], name |-> entry[2]])
    /\ pos' = pos + 1
    /\ UNCHANGED <<pc, tokens>>
    /\ UNCHANGED <<base_tokens, sass_tokens, semantic_tokens, resolved_tokens,
                   brand_i, theme_i, pass_num, log, output, rp_args>>

\* the sort of every category and the return; a TypeError of sorted()
\* leaves organize_option_font without a return value
SortFont ==
    /\ pc = "font"
    /\ pos > Len(tokens)
    /\ IF \E c \in DOMAIN result : MixedKeys(result[c], c)
       THEN /\ pc' = "raised"
            /\ result' = None
       ELSE /\ pc' = "sorted"
            /\ result' = [c \in DOMAIN result |-> SortedFont(result[c], c)]
    /\ UNCHANGED <<pos, tokens>>
    /\ UNCHANGED MainVars

NextFont == AssignFont \/ SortFont

SpecFont == InitFont /\ [][NextFont]_vars

\* ------------------------------------------------------------------ C21
SystemKeywords ==
    {"system", "heading", "body", "caption", "label", "display", "title",
     "paragraph", "text"}

SizeOrWeightKeywords ==
    {"size", "weight", "bold", "regular", "medium", "light", "thin", "thick",
     "heavy", "black", "semibold"}

HasBoth(token_path) ==
    /\ \E k \in SystemKeywords : KeywordIn(k, Lower(token_path))
    /\ \E k \in SizeOrWeightKeywords : KeywordIn(k, Lower(token_path))

\* C21 (as claimed): a font token whose path holds a system keyword and a
\* size or weight pattern is assigned to the category 'system'.
C21_SystemBeforeSizeWeight ==
    \A i \in 1..Len(calls) :
        pc \in {"font", "sorted", "raised"} /\ HasBoth(calls[i].token_path)
        => calls[i].category = "system"

\* ---------------------------------------------------- categorize_tokens
\* the most tokens handed to categorize_tokens
MaxBrandTokens == 2

component_keywords ==
    <<"button", "input", "card", "toggle", "checkbox", "radio", "dropdown",
      "slider", "tooltip", "modal", "tab", "accordion", "table", "avatar",
      "badge", "banner", "toast", "alert", "progress", "spinner", "menu",
      "form", "header", "footer", "sidebar", "navigation", "pagination",
      "breadcrumb", "dialog", "popover", "tag", "chip", "layout", "grid",
      "container", "divider", "section",
      "datepicker", "timepicker", "calendar", "carousel", "drawer", "stepper",
      "panel", "list", "listitem", "treeview", "combobox", "textarea",
      "select", "switch", "skeleton", "link", "icon", "separator", "field",
      "pill", "notification", "snackbar">>

state_patterns ==
    <<"rest", "hover", "active", "press", "disabled", "focus", "selected", "error">>

element_parts ==
    {<<"title">>, <<"subtitle">>, <<"heading">>, <<"label">>, <<"caption">>,
     <<"body">>, <<"container">>}

option_parts == {<<"color">>, <<"font">>, <<"typography">>, <<"scale">>}

\* the first loop of extract_component_name from part i on: the first
\* keyword found in the first part that holds one, None if no part does
RECURSIVE KeywordOfParts(_, _)
KeywordOfParts(path_parts, i) ==
    IF i > Len(path_parts) THEN None
    ELSE LET part_lower == Lower(path_parts[i])
             k == FirstIn([j \in 1..Len(component_keywords) |-> <<component_keywords[j]>>],
                          part_lower, 1)
         IN  IF k # 0 THEN <<component_keywords[k]>>
             ELSE KeywordOfParts(path_parts, i + 1)

\* the second loop from part i on: the part before a state or an element
RECURSIVE ContextOfParts(_, _)
ContextOfParts(path_parts, i) ==
    IF i > Len(path_parts) THEN None
    ELSE LET part_lower == Lower(path_parts[i])
         IN  IF /\ i > 1
                /\ \E k \in 1..Len(state_patterns) :
                      Contains(part_lower, <<"-", state_patterns[k]>>)
             THEN Lower(path_parts[i - 1])
             ELSE IF /\ part_lower \in element_parts
                     /\ i > 1
                     /\ Lower(path_parts[i - 1]) \notin option_parts
             THEN Lower(path_parts[i - 1])
             ELSE ContextOfParts(path_parts, i + 1)

extract_component_name(path) ==
    LET path_parts == Split(path, ".")
    IN  IF KeywordOfParts(path_parts, 1) # None THEN KeywordOfParts(path_parts, 1)
        ELSE ContextOfParts(path_parts, 1)

\* the groups of identify_system_group in the order of its elif chain, each
\* with the terms looked for in the path and in the description
system_group_terms ==
    << [group |-> "surface",
        path |-> <<<<"background">>, <<"bg">>, <<"surface">>, <<"fill">>>>,
        description |-> <<<<"background">>, <<"surface">>, <<"container">>>>],
       [group |-> "text",
        path |-> <<<<"text">>, <<"font">>, <<"typography">>, <<"label">>>>,
        description |-> <<<<"text">>, <<"font">>, <<"typography">>>>],
       [group |-> "border",
        path |-> <<<<"border">>, <<"outline">>, <<"stroke">>>>,
        description |-> <<<<"border">>, <<"outline">>, <<"stroke">>>>],
       [group |-> "interactive",
        path |-> <<<<"hover">>, <<"active">>, <<"focus">>, <<"press">>, <<"click">>>>,
        description |-> <<<<"interaction">>, <<"clickable">>, <<"selectable">>>>],
       [group |-> "feedback",
        path |-> <<<<"error">>, <<"warning">>, <<"success">>, <<"info">>, <<"alert">>,
                   <<"notification">>>>,
        description |-> <<<<"error">>, <<"warning">>, <<"success">>, <<"alert">>,
                          <<"status">>>>],
       [group |-> "layout",
        path |-> <<<<"spacing">>, <<"gap">>, <<"margin">>, <<"padding">>, <<"layout">>,
                   <<"grid">>>>,
        description |-> <<<<"spacing">>, <<"layout">>, <<"position">>, <<"alignment">>>>],
       [group |-> "elevation",
        path |-> <<<<"shadow">>, <<"elevation">>, <<"depth">>, <<"layer">>>>,
        description |-> <<<<"shadow">>, <<"elevation">>, <<"layer">>,
                          <<"z", "-", "index">>>>] >>

\* any(term in text for term in terms)
AnyIn(terms, text) == FirstIn(terms, text, 1) # 0

\* the elif chain from group k on
RECURSIVE SystemGroupFrom(_, _, _)
SystemGroupFrom(path_lower, description_lower, k) ==
    IF k > Len(system_group_terms) THEN "other"
    ELSE IF \/ AnyIn(system_group_terms[k].path, path_lower)
            \/ AnyIn(system_group_terms[k].description, description_lower)
    THEN system_group_terms[k].group
    ELSE SystemGroupFrom(path_lower, description_lower, k + 1)

\* the chain entered at its last branch but one
MutIdentifySystemGroup(path, description) ==
    SystemGroupFrom(Lower(path), Lower(description), Len(system_group_terms))

identify_system_group(path, description) ==
    SystemGroupFrom(Lower(path), Lower(description), 1)

SystemGroupNames ==
    {system_group_terms[k].group : k \in 1..Len(system_group_terms)} \cup {"other"}

BrandKeys == {"evydCore", "bruHealth"}

SetKeys == {"colors", "scale", "font", "evydCore", "bruHealth", "themes"}

\* token_sets, component_groups, system_groups and the counters before the loop
EmptyCategorized ==
    [token_sets |-> [k \in SetKeys |-> <<>>],
     component_groups |-> [b \in BrandKeys |-> <<>>],
     system_groups |-> [b \in BrandKeys |-> [g \in SystemGroupNames |-> <<>>]],
     counts |-> [k \in SetKeys \cup {"other"} |-> 0]]

\* '.'.join([prefix] + parts[1:])
ModifiedPath(prefix, token_path) ==
    Join(<<prefix>> \o Tail(Split(token_path, ".")), ".")

\* the branch of the if chain of the loop a token takes: the set it is
\* stored in ("other" for none) and the path it is stored under
SetOf(token_path, token_type) ==
    IF StartsWith(token_path, <<"color", "/", "Light">>)
    THEN <<"colors", ModifiedPath(<<"color", ".", "light">>, token_path)>>
    ELSE IF StartsWith(token_path, <<"color", "/", "Dark">>)
    THEN <<"colors", ModifiedPath(<<"color", ".", "dark">>, token_path)>>
    ELSE IF StartsWith(token_path, <<"scale", "/", "option", "-", "token">>)
    THEN <<"scale", ModifiedPath(<<"scale">>, token_path)>>
    ELSE IF StartsWith(token_path, <<"font", "/", "option", "-", "token">>)
    THEN <<"font", ModifiedPath(<<"font">>, token_path)>>
    ELSE IF StartsWith(token_path, <<"brands", "/", "EVYDCore">>)
    THEN <<"evydCore", ModifiedPath(<<"brands", ".", "evydCore">>, token_path)>>
    ELSE IF StartsWith(token_path, <<"brands", "/", "BruHealth">>)
    THEN <<"bruHealth", ModifiedPath(<<"brands", ".", "bruHealth">>, token_path)>>
    ELSE IF StartsWith(token_path, <<"$themes">>)
    THEN <<"themes", ModifiedPath(<<"themes">>, token_path)>>
    ELSE IF token_type = "color" THEN <<"colors", token_path>>
    ELSE IF \E k \in {"size", "spacing", "gap", "radius"} : KeywordIn(k, Lower(token_path))
    THEN <<"scale", token_path>>
    ELSE IF \E k \in {"font", "text", "typography"} : KeywordIn(k, Lower(token_path))
    THEN <<"font", token_path>>
    ELSE <<"other", token_path>>

\* component_groups[brand][component_name].append(modified_path)
AppendTo(groups, component_name, modified_path) ==
    DictSet(groups, component_name,
            Append(DictGetOr(groups, component_name, <<>>), modified_path))

\* the body of the loop of categorize_tokens
categorize(res, token_path, token_data) ==
    LET set == SetOf(token_path, token_data.type)
        modified_path == set[2]
        stored == [value |-> token_data.value, type |-> token_data.type,
                   originalPath |-> token_data.originalPath,
                   description |-> token_data.description]
        counted == [res EXCEPT !.counts[set[1]] = @ + 1]
        component_name == extract_component_name(modified_path)
        system_group == identify_system_group(modified_path, token_data.description)
    IN  IF set[1] = "other" THEN counted
        ELSE IF set[1] \notin BrandKeys
        THEN [counted EXCEPT !.token_sets[set[1]] = DictSet(@, modified_path, stored)]
        ELSE IF component_name # None /\ component_name # <<>>
        THEN [counted EXCEPT
                 !.token_sets[set[1]] = DictSet(@, modified_path, stored),
                 !.component_groups[set[1]] = AppendTo(@, component_name, modified_path)]
        ELSE [counted EXCEPT
                 !.token_sets[set[1]] = DictSet(@, modified_path, stored),
                 !.system_groups[set[1]][system_group] = Append(@, modified_path)]

BrandPath(brand, tail) == <<"brands", "/", brand, ".">> \o tail

\* the tokens offered: <<path, type, description>>
BrandMenu ==
    { <<BrandPath("EVYDCore", <<"color", ".", "text", ".", "button", "-", "primary">>), "color", <<>>>>,
      <<BrandPath("EVYDCore", <<"color", ".", "bg", ".", "primary">>), "color", <<>>>>,
      <<BrandPath("BruHealth", <<"color", ".", "bg", ".", "primary">>), "color", <<>>>>,
      <<BrandPath("EVYDCore", <<"color", ".", "border", ".", "text">>), "color", <<>>>>,
      <<BrandPath("EVYDCore", <<"color", ".", "primary">>), "color", <<>>>>,
      <<BrandPath("EVYDCore", <<"color", ".", "secondary">>), "color",
        <<"border", " ", "on", " ", "a", " ", "surface">>>>,
      <<BrandPath("BruHealth", <<"color", ".", "nav", "-", "hover">>), "color", <<>>>>,
      <<BrandPath("EVYDCore", <<"color", ".", "hover">>), "color", <<>>>>,
      <<BrandPath("BruHealth", <<"hero", ".", "title">>), "typography", <<>>>>,
      <<BrandPath("EVYDCore", <<"font", ".", "title">>), "typography", <<>>>>,
      <<BrandPath("EVYDCore", <<"color", ".", "warning">>), "color",
        <<"status", " ", "of", " ", "a", " ", "layer">>>>,
      <<BrandPath("BruHealth", <<"size", ".", "gap">>), "dimension", <<>>>>,
      <<BrandPath("EVYDCore", <<"shadow", ".", "sm">>), "boxShadow", <<>>>>,
      <<(<<"color", "/", "Light", ".", "color", ".", "neutral", ".", "25">>), "color", <<>>>>,
      <<(<<"scale", "/", "option", "-", "token", ".", "base", ".", "gap", ".", "sm">>),
        "dimension", <<>>>>,
      <<(<<"misc", ".", "tint">>), "color", <<>>>>,
      <<(<<"misc", ".", "opacity">>), "number", <<>>>> }

BrandData(entry) ==
    [value |-> <<"#">> \o entry[1], type |-> entry[2], originalPath |-> entry[1],
     description |-> entry[3]]

RECURSIVE BrandTokens(_)
BrandTokens(n) ==
    IF n = 0 THEN {<<>>}
    ELSE LET shorter == BrandTokens(n - 1)
         IN  shorter \cup
             {Append(d, <<e[1], BrandData(e)>>) :
                 d \in {f \in shorter : Len(f) = n - 1}, e \in BrandMenu}

InitCategorize ==
    /\ tokens \in {d \in BrandTokens(MaxBrandTokens) : DistinctKeys(d)}
    /\ result = EmptyCategorized
    /\ pc = "tokens"
    /\ pos = 1
    /\ MainIdle

\* the body of 'for token_path, token_data in flattened_tokens.items()'
CategorizeBrandToken ==
    /\ pc = "tokens"
    /\ pos <= Len(tokens)
    /\ result' = categorize(result, tokens[pos][1], tokens[pos][2])
    /\ pos' = pos + 1
    /\ UNCHANGED <<pc, tokens>>
    /\ UNCHANGED MainVars

\* the summaries are printed and the three tables returned
ReturnCategorized ==
    /\ pc = "tokens"
    /\ pos > Len(tokens)
    /\ pc' = "categorized"
    /\ UNCHANGED <<pos, tokens, result>>
    /\ UNCHANGED MainVars

NextCategorize == CategorizeBrandToken \/ ReturnCategorized

SpecCategorize == InitCategorize /\ [][NextCategorize]_vars

\* ------------------------------------------------------------------ C22
\* how often a path stands in a list
Occurrences(list, x) == Cardinality({i \in 1..Len(list) : list[i] = x})

\* how often a path stands in the component groups of a brand
InComponents(brand, x) ==
    LET groups == result.component_groups[brand]
    IN  IF groups = <<>> THEN 0
        ELSE LET count[i \in 0..Len(groups)] ==
                     IF i = 0 THEN 0 ELSE count[i - 1] + Occurrences(groups[i][2], x)
             IN  count[Len(groups)]

\* how often a path stands in the system groups of a brand other than g
InOtherSystems(brand, g, x) ==
    \E other \in SystemGroupNames \ {g} :
        Occurrences(result.system_groups[brand][other], x) > 0

\* the group the elif order gives: the first whose terms are found
ClaimedSystemGroup(path, description) ==
    LET hit(k) == \/ AnyIn(system_group_terms[k].path, Lower(path))
                  \/ AnyIn(system_group_terms[k].description, Lower(description))
        order == <<"surface", "text", "border", "interactive", "feedback", "layout",
                   "elevation">>
    IN  IF \E k \in 1..7 : hit(k)
        THEN order[CHOOSE k \in 1..7 : hit(k) /\ \A j \in 1..(k - 1) : ~hit(j)]
        ELSE "other"

BrandOf(token_path) ==
    IF StartsWith(token_path, <<"brands", "/", "EVYDCore">>) THEN "evydCore"
    ELSE IF StartsWith(token_path, <<"brands", "/", "BruHealth">>) THEN "bruHealth"
    ELSE "none"

\* C22: when the loop is over, the path of every brand token stands once in
\* all the groups of its brand and in no group of the other brand: in the
\* component group of the name extracted from it and in no system group,
\* or, no name being extracted, in no component group and in the first of
\* surface, text, border, interactive, feedback, layout, elevation whose
\* terms its path or description holds, 'other' if none does.
C22_ExactlyOneGrouping ==
    pc = "categorized" =>
        \A i \in 1..Len(tokens) :
            LET brand == BrandOf(tokens[i][1])
                path  == SetOf(tokens[i][1], tokens[i][2].type)[2]
                name  == extract_component_name(path)
                group == ClaimedSystemGroup(path, tokens[i][2].description)
            IN  brand # "none" =>
                  /\ \A b \in BrandKeys \ {brand} :
                        /\ InComponents(b, path) = 0
                        /\ \A g \in SystemGroupNames :
                              Occurrences(result.system_groups[b][g], path) = 0
                  /\ IF name # None
                     THEN /\ InComponents(brand, path) = 1
                          /\ Occurrences(DictGetOr(result.component_groups[brand], name, <<>>),
                                         path) = 1
                          /\ \A g \in SystemGroupNames :
                                Occurrences(result.system_groups[brand][g], path) = 0
                     ELSE /\ InComponents(brand, path) = 0
                          /\ Occurrences(result.system_groups[brand][group], path) = 1
                          /\ ~InOtherSystems(brand, group, path)

\* two tokens of evydCore: one stands in the component group 'button', the
\* other, whose path holds both 'border' and 'text', in the system group 'text'
C22_Witness ==
    /\ pc = "categorized"
    /\ Len(tokens) = 2
    /\ DictHas(result.component_groups["evydCore"], <<"button">>)
    /\ Len(result.system_groups["evydCore"]["text"]) = 1
    /\ Contains(result.system_groups["evydCore"]["text"][1], <<"border">>)

\* ------------------------------------------------ format_scss_token_value
\* the longest chain of references the token sets offered hold
MaxRefChain == 3

\* sys.getrecursionlimit()
recursion_limit == 1000

\* a value of a token: a str or a number
StrValue(s) == [kind |-> "str", s |-> s, n |-> 0]

IntValue(n) == [kind |-> "int", s |-> <<>>, n |-> n]

\* isinstance(value, str) and value.startswith("{") and value.endswith("}")
IsReference(value) ==
    /\ value.kind = "str"
    /\ value.s # <<>>
    /\ Head(value.s) = "{"
    /\ value.s[Len(value.s)] = "}"

dimension_types ==
    {"dimension", "fontSize", "lineHeight", "letterSpacing", "spacing", "sizing",
     "radius", "borderWidth"}

Quote == "\""

\* str(n)
IntText(n) == IF n = 0 THEN "0" ELSE Digits[n]

\* the part of format_scss_token_value below the reference branch; a
\* number returned as it is stands as its text
FormatPlain(value, token_type) ==
    IF token_type = "color" THEN (IF value.kind = "str" THEN value.s ELSE <<IntText(value.n)>>)
    ELSE IF value.kind = "int" /\ token_type \in dimension_types
    THEN IF value.n = 0 THEN <<"0">> ELSE <<IntText(value.n), "px">>
    ELSE IF value.kind = "str"
    THEN IF Len(value.s) > 0 /\ Head(value.s) = Quote /\ value.s[Len(value.s)] = Quote
         THEN value.s
         ELSE IF Len(value.s) > 0 /\ Head(value.s) = "'" /\ value.s[Len(value.s)] = "'"
         THEN value.s
         ELSE <<Quote>> \o value.s \o <<Quote>>
    ELSE <<IntText(value.n)>>

\* the dicts a reference is looked up in, in the order of the lookups:
\* colors, scale, font, then the two brands
LookupDicts(token_sets) ==
    <<token_sets.optionTokens.colors, token_sets.optionTokens.scale,
      token_sets.optionTokens.font, token_sets.semanticTokens.brands.evydcore,
      token_sets.semanticTokens.brands.bruhealth>>

IsReferenced(token_path, token_sets) ==
    \E k \in 1..5 : DictHas(LookupDicts(token_sets)[k], token_path)

\* the token a reference names: that of the first dict that holds the path
Referenced(token_path, token_sets) ==
    LET k == CHOOSE j \in 1..5 :
                 /\ DictHas(LookupDicts(token_sets)[j], token_path)
                 /\ \A i \in 1..(j - 1) : ~DictHas(LookupDicts(token_sets)[i], token_path)
    IN  DictGet(LookupDicts(token_sets)[k], token_path)

\* one activation of format_scss_token_value up to its return statement:
\* the call it returns the value of, or the value it returns
FormatBody(frame, token_sets) ==
    LET token_path == SubSeq(frame.value.s, 2, Len(frame.value.s) - 1)
        referenced_token == Referenced(token_path, token_sets)
    IN  IF IsReference(frame.value)
        THEN IF frame.token_sets /\ IsReferenced(token_path, token_sets)
             THEN [kind |-> "call",
                   frame |-> [value |-> referenced_token.value,
                              token_type |-> referenced_token.type,
                              token_sets |-> IsReference(referenced_token.value)],
                   value |-> <<>>]
             ELSE [kind |-> "return", frame |-> frame,
                   value |-> <<"$">> \o Lower(Replace(token_path, <<".">>, <<"-">>))]
        ELSE [kind |-> "return", frame |-> frame,
              value |-> FormatPlain(frame.value, frame.token_type)]

RefPath(name) == <<"color", ".", name>>

Ref(name) == StrValue(Braced(RefPath(name)))

ColorToken(value) == [type |-> "color", value |-> value]

\* n tokens, each the reference of the next, the last a color
RefChain(n) ==
    [i \in 1..n |->
        <<RefPath(Digits[i]),
          ColorToken(IF i = n THEN StrValue(<<"#2D9CDB">>) ELSE Ref(Digits[i + 1]))>>]

TokenSets(colors, scale, evydcore, bruhealth) ==
    [optionTokens |-> [colors |-> colors, scale |-> scale, font |-> <<>>],
     semanticTokens |-> [brands |-> [evydcore |-> evydcore, bruhealth |-> bruhealth],
                         themes |-> [light |-> <<>>, dark |-> <<>>]]]

\* the token sets offered: chains that end in a value, tokens of the
\* scale, a brand token that refers to an option token, and references
\* that come back to where they began, within a dict and across two
FormatMenu ==
    {TokenSets(RefChain(n),
               << <<RefPath("gap"), [type |-> "dimension", value |-> IntValue(16)]>>,
                  <<RefPath("none"), [type |-> "dimension", value |-> IntValue(0)]>> >>,
               << <<RefPath("brand"), ColorToken(Ref("1"))>> >>,
               << <<RefPath("family"), [type |-> "fontFamily", value |-> StrValue(<<"Inter">>)]>> >>)
        : n \in 1..MaxRefChain} \cup
    {TokenSets(<< <<RefPath("a"), ColorToken(Ref("b"))>>,
                  <<RefPath("b"), ColorToken(Ref("a"))>>,
                  <<RefPath("self"), ColorToken(Ref("self"))>> >>,
               <<>>,
               << <<RefPath("brand"), ColorToken(Ref("other"))>> >>,
               << <<RefPath("other"), ColorToken(Ref("brand"))>> >>)}

ValueMenu ==
    {Ref(name) : name \in {"1", "2", "gap", "none", "brand", "family", "a", "b", "self",
                           "other", "missing"}}
    \cup {StrValue(<<"#FFFFFF">>), StrValue(<<"Inter">>), IntValue(8), IntValue(0)}

\* a caller is about to format a value against the token sets: pos is the
\* depth of the recursion, calls holds the activation that runs
InitFormat ==
    /\ tokens \in FormatMenu
    /\ \E value \in ValueMenu, token_type \in {"color", "dimension", "fontFamily"} :
          calls = <<[value |-> value, token_type |-> token_type, token_sets |-> TRUE]>>
    /\ result = None
    /\ pc = "format"
    /\ pos = 1
    /\ base_tokens = <<>>
    /\ sass_tokens = <<>>
    /\ semantic_tokens = <<>>
    /\ resolved_tokens = <<>>
    /\ brand_i = 0
    /\ theme_i = 0
    /\ pass_num = 0
    /\ log = <<>>
    /\ output = <<>>
    /\ rp_args = NoArgs

FormatIdle ==
    <<base_tokens, sass_tokens, semantic_tokens, resolved_tokens, brand_i,
      theme_i, pass_num, log, output, rp_args, tokens>>

\* 'return format_scss_token_value(...)' of lines 1204 and 1207
FormatCall ==
    /\ pc = "format"
    /\ FormatBody(calls[1], tokens).kind = "call"
    /\ pos < recursion_limit
    /\ calls' = <<FormatBody(calls[1], tokens).frame>>
    /\ pos' = pos + 1
    /\ UNCHANGED <<pc, result>>
    /\ UNCHANGED FormatIdle

\* the same call with no frame left for it
FormatRecursionError ==
    /\ pc = "format"
    /\ FormatBody(calls[1], tokens).kind = "call"
    /\ pos >= recursion_limit
    /\ pc' = "raised"
    /\ result' = <<"RecursionError">>
    /\ UNCHANGED <<calls, pos>>
    /\ UNCHANGED FormatIdle

\* a return of a value: every caller returns it as it is
FormatReturn ==
    /\ pc = "format"
    /\ FormatBody(calls[1], tokens).kind = "return"
    /\ pc' = "returned"
    /\ result' = FormatBody(calls[1], tokens).value
    /\ UNCHANGED <<calls, pos>>
    /\ UNCHANGED FormatIdle

NextFormat == FormatCall \/ FormatRecursionError \/ FormatReturn

SpecFormat == InitFormat /\ [][NextFormat]_vars

\* ------------------------------------------------------------------ C28
\* C28 (as claimed): format_scss_token_value never runs out of stack: a
\* reference that leads back to itself is given up and a value returned.
C28_FormatReturnsValue ==
    ~(pc = "raised" /\ result = <<"RecursionError">>)

\* ------------------------------------------------------------ read_tokens
\* the deepest nesting of groups in the token files offered
MaxNest == 2

\* what json.load can return: a dict (items holds its keys and values in
\* their order) or a value that is no dict
Dict(items) == [kind |-> "dict", items |-> items]

NotDict(kind) == [kind |-> kind, items |-> <<>>]

HasKey(data, key) == \E i \in 1..Len(data.items) : data.items[i][1] = key

ValueOf(data, key) == data.items[CHOOSE i \in 1..Len(data.items) : data.items[i][1] = key][2]

\* a token definition, and a dict that holds a value but no type
TokenNode == Dict(<< <<"value", NotDict("str")>>, <<"type", NotDict("str")>> >>)

MalformedNode == Dict(<< <<"value", NotDict("str")>> >>)

\* a leaf under n groups
RECURSIVE Nested(_, _)
Nested(n, leaf) ==
    IF n = 0 THEN leaf ELSE Dict(<< <<Digits[n], Nested(n - 1, leaf)>> >>)

SectionNames == <<"color", "scale", "font", "brands">>

Leaves ==
    {Nested(n, TokenNode) : n \in 0..MaxNest} \cup
    {MalformedNode, Dict(<<>>), NotDict("num")}

\* the sections of a file, each present or not, all with the same content;
\* the content of brands stands under the brand EVYDCore
Sections(present, leaf) ==
    LET section(k) ==
            IF SectionNames[k] = "brands"
            THEN <<"brands", Dict(<< <<"EVYDCore", leaf>> >>)>>
            ELSE <<SectionNames[k], leaf>>
        from[k \in 1..(Len(SectionNames) + 1)] ==
            IF k > Len(SectionNames) THEN <<>>
            ELSE (IF SectionNames[k] \in present THEN <<section(k)>> ELSE <<>>) \o from[k + 1]
    IN  Dict(from[1])

\* the token files offered: missing, not JSON, JSON that is no mapping,
\* and mappings
FileInputs ==
    {[exists |-> FALSE, json |-> FALSE, data |-> NotDict("null")],
     [exists |-> TRUE, json |-> FALSE, data |-> NotDict("null")]} \cup
    {[exists |-> TRUE, json |-> TRUE, data |-> NotDict(kind)] :
        kind \in {"list", "str", "num", "null"}} \cup
    {[exists |-> TRUE, json |-> TRUE, data |-> Sections(present, leaf)] :
        present \in SUBSET {SectionNames[k] : k \in 1..Len(SectionNames)},
        leaf \in Leaves}

required_sections == <<"color", "scale", "font">>

\* validate_token_structure: <<is_valid, message>>
validate_token_structure(tokens_data) ==
    IF tokens_data.kind # "dict"
    THEN <<FALSE, <<"Token data is not a dictionary">> >>
    ELSE IF \E k \in 1..Len(required_sections) : ~HasKey(tokens_data, required_sections[k])
    THEN <<FALSE, <<"Missing required token sections">> >>
    ELSE IF /\ HasKey(tokens_data, "brands")
            /\ \E brand \in {"EVYDCore", "BruHealth"} :
                  HasKey(ValueOf(tokens_data, "brands"), brand)
    THEN <<TRUE, <<"Token structure validated">> >>
    ELSE <<TRUE, <<"Warning: No brand tokens found">> >>

Prefixed(prefix, key) == IF prefix # <<>> THEN prefix \o <<".", key>> ELSE <<key>>

\* flatten_tokens of read_tokens: the tokens it adds to flattened_tokens
\* and the warnings it prints, from item i of data on
RECURSIVE flatten_tokens(_, _, _)
flatten_tokens(data, prefix, i) ==
    IF data.kind # "dict"
    THEN [tokens |-> <<>>, warnings |-> <<<<"Expected dictionary">> \o prefix>>]
    ELSE IF i > Len(data.items) THEN [tokens |-> <<>>, warnings |-> <<>>]
    ELSE LET key == data.items[i][1]
             value == data.items[i][2]
             rest == flatten_tokens(data, prefix, i + 1)
             here ==
                 IF value.kind = "dict" /\ ~HasKey(value, "value") /\ ~HasKey(value, "type")
                 THEN flatten_tokens(value, Prefixed(prefix, key), 1)
                 ELSE IF value.kind = "dict" /\ HasKey(value, "value") /\ HasKey(value, "type")
                 THEN [tokens |-> << <<Prefixed(prefix, key),
                                       [value |-> ValueOf(value, "value"),
                                        type |-> ValueOf(value, "type"),
                                        originalPath |-> Prefixed(prefix, key),
                                        description |-> <<>>]>> >>,
                       warnings |-> <<>>]
                 ELSE [tokens |-> <<>>,
                       warnings |-> <<<<"Unexpected token structure">> \o Prefixed(prefix, key)>>]
         IN  [tokens |-> here.tokens \o rest.tokens,
              warnings |-> here.warnings \o rest.warnings]

Printed(text) == [level |-> "PRINT", msg |-> text, detail |-> <<>>]

\* main is about to call read_tokens on the token file
InitRead ==
    /\ tokens \in FileInputs
    /\ result = None
    /\ pc = "open"
    /\ pos = 0
    /\ MainIdle

\* os.path.exists, open and json.load: FileNotFoundError and
\* JSONDecodeError leave read_tokens by the re-raise of the outer except
ParseFile ==
    /\ pc = "open"
    /\ IF ~tokens.exists
       THEN /\ pc' = "raised"
            /\ log' = Append(log, Printed(<<"Error reading token file">>))
       ELSE IF ~tokens.json
       THEN /\ pc' = "raised"
            /\ log' = log \o <<Printed(<<"Error parsing JSON file">>),
                               Printed(<<"Error reading token file">>)>>
       ELSE /\ pc' = "parsed"
            /\ log' = log
    /\ UNCHANGED <<result, base_tokens, sass_tokens, semantic_tokens, resolved_tokens,
                   brand_i, theme_i, pass_num, pos, output, calls, rp_args, tokens>>

\* the call of validate_token_structure and the prints that follow it
ValidateStructure ==
    /\ pc = "parsed"
    /\ LET validation == validate_token_structure(tokens.data)
       IN  log' = IF ~validation[1]
                  THEN log \o <<Printed(<<"WARNING">> \o validation[2]),
                                Printed(<<"Continuing with processing">>)>>
                  ELSE Append(log, Printed(validation[2]))
    /\ pc' = "validated"
    /\ UNCHANGED <<result, base_tokens, sass_tokens, semantic_tokens, resolved_tokens,
                   brand_i, theme_i, pass_num, pos, output, calls, rp_args, tokens>>

\* flatten_tokens(tokens_data) and the return of flattened_tokens
FlattenTokens ==
    /\ pc = "validated"
    /\ LET flat == flatten_tokens(tokens.data, <<>>, 1)
       IN  /\ result' = flat.tokens
           /\ log' = log \o [k \in 1..Len(flat.warnings) |-> Printed(flat.warnings[k])]
                         \o <<Printed(IF flat.tokens = <<>> THEN <<"WARNING: No tokens found">>
                                      ELSE <<"Processed tokens">>)>>
    /\ pc' = "returned"
    /\ UNCHANGED <<base_tokens, sass_tokens, semantic_tokens, resolved_tokens,
                   brand_i, theme_i, pass_num, pos, output, calls, rp_args, tokens>>

\* main goes on with what read_tokens returned: the report, and
\* process_tokens on the flattened tokens
BeginProcessing ==
    /\ pc = "returned"
    /\ pc' = "processing"
    /\ pos' = Len(result)
    /\ log' = Append(log, Printed(<<"Processing tokens">>))
    /\ UNCHANGED <<result, base_tokens, sass_tokens, semantic_tokens, resolved_tokens,
                   brand_i, theme_i, pass_num, output, calls, rp_args, tokens>>

NextRead == ParseFile \/ ValidateStructure \/ FlattenTokens \/ BeginProcessing

SpecRead == InitRead /\ [][NextRead]_vars

\* ------------------------------------------------------------------ C24
\* C24 (as claimed): when the token file parses to something that is no
\* mapping the run is over before flatten_tokens is called: read_tokens
\* returns nothing and main does not reach process_tokens.
C24_NotMappingAborts ==
    tokens.exists /\ tokens.json /\ tokens.data.kind # "dict"
    => pc \notin {"returned", "processing"}

====
